---- MODULE Spec2Model ----
(***************************************************************************)
(* SlopeSniper trading core: the intent store, the two-phase quote ->      *)
(* confirm path against the aggregator, and the auto-sell targets polled   *)
(* by the daemon.  Every definition is translated from the Python source   *)
(* under src/mcp-extension/src/slopesniper_skill (policy.py from           *)
(* src/src/slopesniper_skill/tools).                                        *)
(***************************************************************************)
EXTENDS Integers, Sequences, FiniteSets, TLC

VARIABLES
    now,            \* wall clock, seconds (datetime.now(timezone.utc))
    intents,        \* rows of table intents in intents.db, keyed by intent_id
    nextIntent,     \* the next fresh uuid4
    issued,         \* history: intent_id -> expires_at given at creation
    markLog,        \* history: intent_id -> <<[stored, ret]>> of mark_executed calls
    confirm,        \* solana_swap_confirm calls: position and locals of each task
    trade_history,  \* rows of table trade_history in config.db, in insertion order
    policy_env,     \* the PolicyConfig that the POLICY_* environment yields
    quotes,         \* solana_quote calls: position, arguments and locals of each
    policy_call,    \* the last direct check_policy call: arguments and result
    quick_op,       \* history: the last quick_trade call, its arguments and result
    strategy,       \* the active TradingStrategy (table strategies in config.db)
    targets,        \* rows of table targets in config.db, keyed by id
    nextTarget,     \* the next AUTOINCREMENT id of table targets
    daemon,         \* SlopeSniperDaemon: position and locals of run/_check_cycle
    sells,          \* history: the results of execute_target_sell, in order
    observed,       \* history: per trailing stop, the prices polled for it
    wallet_enc,     \* the file ~/.slopesniper/wallet.enc
    backups,        \* the files wallet_backups/wallet.enc.<timestamp>
    sidecars,       \* the files wallet_backups/wallet.enc.<timestamp>.address
    machine_key,    \* the key _get_or_create_machine_key derives at present
    wallet_clock,   \* datetime.now() in whole seconds
    wallet_writes,  \* the number of writes of wallet.enc so far
    wallet_op,      \* history: the last wallet call and how it ended
    overwritten,    \* history: the wallets that were overwritten in wallet.enc
    evicted,        \* history: the wallets whose backup _cleanup_old_backups deleted
    strategies,     \* rows of table strategies in config.db, keyed by name
    pnl_snapshots,  \* rows of table pnl_snapshots in config.db, in rowid order
    pnl_op,         \* history: the last PnL call, its number and its result
    user_config,    \* config.enc: the decrypted user config, or no file
    config_op,      \* history: the last user-config call, its arguments and result
    http,           \* one _make_request call: client, position, attempt and history
    pid_file,       \* the file ~/.slopesniper/daemon.pid: the PID in it, or no file
    procs,          \* the daemon processes by PID: position, stop flag and history
    cli             \* start_daemon and stop_daemon calls: position, locals, result

ivars == <<now, intents, nextIntent, issued, markLog, confirm, trade_history>>

qvars == <<policy_env, quotes, policy_call, quick_op>>

tvars == <<strategy, targets, nextTarget, daemon, sells, observed>>

wvars == <<wallet_enc, backups, sidecars, machine_key, wallet_clock, wallet_writes,
           wallet_op, overwritten, evicted>>

svars == <<strategies, pnl_snapshots, pnl_op>>
cvars == <<user_config, config_op>>
hvars == <<http>>
dvars == <<pid_file, procs, cli>>

vars == <<ivars, qvars, tvars, wvars, svars, cvars, hvars, dvars>>

----------------------------------------------------------------------------
(* Bounds of the model *)

MaxTicks == 3        \* clock advances
MaxIntents == 1
MaxCalls == 2        \* solana_swap_confirm calls
MaxMarks == 2        \* direct mark_executed calls per intent id
MaxQuotes == 1       \* solana_quote calls
MaxTargets == 2      \* add_target calls
MaxCycles == 2       \* daemon ticks
MaxSaves == 12
MaxSeconds == 11
MaxKeys == 2
MaxCollisions == 2
MaxPnlCalls == 3
MaxTrades == 2
MaxQuickTrades == 2
MaxDaemons == 2      \* daemon processes forked
MaxCliCalls == 3     \* start_daemon and stop_daemon calls
MaxHistory == 51     \* rows of trade_history, one more than a query returns

----------------------------------------------------------------------------
(* Program constants *)

INTENT_TTL_SECONDS == 120
max_retries == 5
DEFAULT_HISTORY_LIMIT == 50

\* The clock advances in steps of half a TTL, so that an intent is seen
\* strictly before, exactly at, and strictly after its expires_at.
ClockStep == INTENT_TTL_SECONDS \div 2

None == "None"

\* get_intent's None, comparable with a row
NoIntent == [missing |-> TRUE]

SOL_MINT == "So11"
USDC_MINT == "EPjF"
BONK_MINT == "DezX"
WIF_MINT == "EKpQ"

IntentIds == 1..MaxIntents
Calls == 1..MaxCalls

----------------------------------------------------------------------------
(* intents.py: the intent store *)

\* Mutant: the comparison of the DELETE inverted, so live rows are deleted.
cleanup_expired_inverted(rows, t) ==
    [i \in {j \in DOMAIN rows : ~(rows[j].expires_at > t)} |-> rows[i]]

\* DELETE FROM intents WHERE expires_at < now
cleanup_expired(rows, t) ==
    [i \in {j \in DOMAIN rows : ~(rows[j].expires_at < t)} |-> rows[i]]

\* The row create_intent inserts: created_at = now, expires_at = now + TTL,
\* executed defaults to 0.
new_intent_row(from_mint, to_mint, unsigned_tx, request_id, t) ==
    [from_mint  |-> from_mint,
     to_mint    |-> to_mint,
     unsigned_tx |-> unsigned_tx,
     request_id |-> request_id,
     created_at |-> t,
     expires_at |-> t + INTENT_TTL_SECONDS,
     executed   |-> FALSE]

\* create_intent: cleanup_expired(), then INSERT under a fresh uuid.
create_intent(rows, id, from_mint, to_mint, unsigned_tx, request_id, t) ==
    LET kept == cleanup_expired(rows, t)
    IN  [i \in DOMAIN kept \cup {id} |->
            IF i = id THEN new_intent_row(from_mint, to_mint, unsigned_tx, request_id, t)
            ELSE kept[i]]

\* SELECT * FROM intents WHERE intent_id = ? AND expires_at > now, run after
\* cleanup_expired(): the row, or None (NoIntent).
select_intent(rows, id, t) ==
    IF id \in DOMAIN rows /\ rows[id].expires_at > t THEN rows[id] ELSE NoIntent

get_intent(rows, id, t) == select_intent(cleanup_expired(rows, t), id, t)

\* UPDATE intents SET executed = 1 WHERE intent_id = ? AND executed = 0;
\* the rows after the update, and cursor.rowcount > 0.
\* Mutant: the UPDATE without "AND executed = 0".
mark_executed_hits_unconditional(rows, id) == id \in DOMAIN rows

mark_executed_hits(rows, id) == id \in DOMAIN rows /\ ~rows[id].executed

mark_executed_rows(rows, id) ==
    IF mark_executed_hits(rows, id)
    THEN [rows EXCEPT ![id].executed = TRUE]
    ELSE rows

mark_executed_ret(rows, id) == mark_executed_hits(rows, id)

\* One more entry of the history of mark_executed(id) calls.
logged_mark(log, rows, id) ==
    [log EXCEPT ![id] = Append(@, [stored |-> id \in DOMAIN rows,
                                   ret    |-> mark_executed_ret(rows, id)])]

----------------------------------------------------------------------------
(* The intent store called directly (as tests/test_intents.py does) *)

Tick ==
    /\ now + ClockStep <= MaxTicks * ClockStep
    /\ now' = now + ClockStep
    /\ UNCHANGED <<intents, nextIntent, issued, markLog, confirm, trade_history, qvars, tvars, wvars, svars, cvars, hvars, dvars>>

CreateIntent(from_mint, to_mint) ==
    /\ nextIntent \in IntentIds
    /\ intents' = create_intent(intents, nextIntent, from_mint, to_mint,
                                "tx==", "req-123", now)
    /\ issued' = [i \in DOMAIN issued \cup {nextIntent} |->
                    IF i = nextIntent THEN now + INTENT_TTL_SECONDS ELSE issued[i]]
    /\ nextIntent' = nextIntent + 1
    /\ UNCHANGED <<now, markLog, confirm, trade_history, qvars, tvars, wvars, svars, cvars, hvars, dvars>>

GetIntent(id) ==
    /\ intents' = cleanup_expired(intents, now)
    /\ UNCHANGED <<now, nextIntent, issued, markLog, confirm, trade_history, qvars, tvars, wvars, svars, cvars, hvars, dvars>>

MarkExecuted(id) ==
    /\ Len(markLog[id]) < MaxMarks
    /\ intents' = mark_executed_rows(intents, id)
    /\ markLog' = logged_mark(markLog, intents, id)
    /\ UNCHANGED <<now, nextIntent, issued, confirm, trade_history, qvars, tvars, wvars, svars, cvars, hvars, dvars>>

----------------------------------------------------------------------------
(* jupiter_ultra_client.py: one iteration of the loop of _make_request *)

HttpOutcomes == {"http200", "http400", "http500", "timeout", "error"}

\* What the iteration with index `attempt` (the number of requests sent
\* before it) does once its own request ended with
\* `outcome`: "return" the body, go round again ("retry", after the backoff
\* sleep), or "raise".  A non-200 status and a timeout only log and fall
\* through to the backoff; after the last iteration the loop ends and
\* RuntimeError is raised.  Any other exception is re-raised on the last
\* iteration only.
make_request_next(attempt, outcome) ==
    IF outcome = "http200" THEN "return"
    ELSE IF attempt < max_retries - 1 THEN "retry"
    ELSE "raise"

----------------------------------------------------------------------------
(* jupiter_data_client.py and jupiter_ultra_client.py: a whole _make_request *)

data_max_retries == 3

Clients == {"data", "ultra"}

client_max_retries(client) ==
    IF client = "data" THEN data_max_retries ELSE max_retries

\* The exception a failed iteration leaves in flight: the data client raises
\* ValueError with the response text for a 400, inside the try block; in
\* both clients any other exception than a timeout comes from the request
\* itself.  A non-200 status of the Ultra client, a non-400 one of the data
\* client and a timeout raise nothing.
NoException == "no exception"
attempt_exception(client, outcome) ==
    IF outcome = "error" THEN "ClientError"
    ELSE IF client = "data" /\ outcome = "http400" THEN "ValueError: Bad request (400): body"
    ELSE NoException

\* What the iteration with index `attempt` of the data client does once its
\* request ended with `outcome`.  The ValueError of a 400 is caught by
\* `except Exception` like any other and is re-raised on the last
\* iteration only.
data_make_request_next(attempt, outcome) ==
    IF outcome = "http200" THEN "return"
    ELSE IF attempt_exception("data", outcome) # NoException
    THEN IF attempt = data_max_retries - 1 THEN "raise" ELSE "retry"
    ELSE IF attempt < data_max_retries - 1 THEN "retry"
    ELSE "raise"

client_make_request_next(client, attempt, outcome) ==
    IF client = "data" THEN data_make_request_next(attempt, outcome)
    ELSE make_request_next(attempt, outcome)

\* What _make_request raises when it ends on the iteration `attempt`: the
\* exception in flight, or the RuntimeError after the loop.
raised_error(client, outcome) ==
    IF attempt_exception(client, outcome) # NoException
    THEN attempt_exception(client, outcome)
    ELSE "RuntimeError: Failed after attempts"

backoff_delay_constant(attempt) == 1

\* delay = 2**attempt
backoff_delay(attempt) == 2 ^ attempt

idle_request ==
    [pc |-> "idle", client |-> None, attempt |-> 0, responses |-> <<>>,
     delays |-> <<>>, error |-> None]

\* _make_request is called: the loop starts with attempt 0
MakeRequestStart(client) ==
    /\ http.pc = "idle"
    /\ http' = [idle_request EXCEPT !.pc = "request", !.client = client]
    /\ UNCHANGED <<ivars, qvars, tvars, wvars, svars, cvars, dvars>>

\* One iteration up to the backoff: the request is sent and ends with
\* `outcome`; the call returns, raises, or goes to sleep for the delay.
MakeRequestAttempt(outcome) ==
    /\ http.pc = "request"
    /\ LET next == client_make_request_next(http.client, http.attempt, outcome)
           answered == [http EXCEPT !.responses = Append(@, outcome)]
       IN  http' =
               IF next = "return" THEN [answered EXCEPT !.pc = "returned"]
               ELSE IF next = "raise"
               THEN [answered EXCEPT !.pc = "raised",
                                     !.error = raised_error(http.client, outcome)]
               ELSE [answered EXCEPT !.pc = "backoff",
                                     !.delays = Append(@, backoff_delay(http.attempt))]
    /\ UNCHANGED <<ivars, qvars, tvars, wvars, svars, cvars, dvars>>

\* asyncio.sleep(delay) is over: the next iteration begins
MakeRequestBackoff ==
    /\ http.pc = "backoff"
    /\ http' = [http EXCEPT !.pc = "request", !.attempt = @ + 1]
    /\ UNCHANGED <<ivars, qvars, tvars, wvars, svars, cvars, dvars>>

----------------------------------------------------------------------------
(* solana_tools.py: solana_swap_confirm *)

ExecStatuses == {"Success", "Failed"}

\* sign_transaction: the transaction with the keypair's signature in place
sign_transaction(unsigned_tx) == <<"signed", unsigned_tx>>
NotSigned == <<"unsigned", None>>

idle_call ==
    [pc |-> "idle", intent_id |-> 0, from_mint |-> None, to_mint |-> None,
     signed_tx |-> NotSigned, request_id |-> None,
     attempt |-> 0, status |-> None, result |-> None]

\* Mutant: the "if intent.executed" return left out.
confirm_precheck_no_reuse_check(intent, has_keypair) ==
    IF intent = NoIntent THEN "not_found"
    ELSE IF ~has_keypair THEN "no_wallet"
    ELSE "proceed"

\* The early returns before signing: intent missing or expired, intent
\* already executed, no keypair; otherwise the call goes on to sign.
confirm_precheck(intent, has_keypair) ==
    IF intent = NoIntent THEN "not_found"
    ELSE IF intent.executed THEN "already_executed"
    ELSE IF ~has_keypair THEN "no_wallet"
    ELSE "proceed"

\* The trade row recorded after a Success: a buy of to_mint when paying in
\* SOL, else a sell of from_mint; signature is the executed transaction's.
trade_row(call) ==
    [action    |-> IF call.from_mint = SOL_MINT THEN "buy" ELSE "sell",
     mint      |-> IF call.from_mint = SOL_MINT THEN call.to_mint ELSE call.from_mint,
     signature |-> call.intent_id]

\* get_intent, the early returns, sign_transaction, and the call of
\* execute_swap up to its first suspension.
ConfirmStart(c, id, has_keypair) ==
    /\ confirm[c].pc = "idle"
    /\ LET intent  == get_intent(intents, id, now)
           verdict == confirm_precheck(intent, has_keypair)
       IN  /\ intents' = cleanup_expired(intents, now)
           /\ confirm' = [confirm EXCEPT ![c] =
                IF verdict = "proceed"
                THEN [@ EXCEPT !.pc = "execute", !.intent_id = id,
                               !.from_mint = intent.from_mint,
                               !.to_mint = intent.to_mint,
                               !.signed_tx = sign_transaction(intent.unsigned_tx),
                               !.request_id = intent.request_id]
                ELSE [@ EXCEPT !.pc = "done", !.intent_id = id,
                               !.result = verdict]]
    /\ UNCHANGED <<now, nextIntent, issued, markLog, trade_history, qvars, tvars, wvars, svars, cvars, hvars, dvars>>

\* One POST /execute of _make_request and what follows it without
\* suspending: on a 200 execute_swap returns, mark_executed runs (its result
\* is not read), and a status other than Success ends the call.  When
\* _make_request returns or raises, its loop index is gone with its frame.
ExecuteAttempt(c, outcome, status) ==
    /\ confirm[c].pc = "execute"
    /\ LET call == confirm[c]
           next == make_request_next(call.attempt, outcome)
       IN  CASE next = "return" ->
                  /\ intents' = mark_executed_rows(intents, call.intent_id)
                  /\ confirm' = [confirm EXCEPT ![c] =
                       IF status = "Success"
                       THEN [call EXCEPT !.pc = "record", !.attempt = 0,
                                         !.status = status]
                       ELSE [call EXCEPT !.pc = "done", !.attempt = 0,
                                         !.status = status,
                                         !.result = "swap_failed"]]
             [] next = "retry" ->
                  /\ confirm' = [confirm EXCEPT ![c] =
                       [call EXCEPT !.attempt = @ + 1]]
                  /\ UNCHANGED intents
             [] next = "raise" ->
                  /\ confirm' = [confirm EXCEPT ![c] =
                       [call EXCEPT !.pc = "raised", !.attempt = 0,
                                    !.result = "raised"]]
                  /\ UNCHANGED intents
    /\ UNCHANGED <<now, nextIntent, issued, markLog, trade_history, qvars, tvars, wvars, svars, cvars, hvars, dvars>>

\* Mutant: an exception while recording the trade ends the call.
RecordTradeUnguarded(c, recorded) ==
    /\ confirm[c].pc = "record"
    /\ trade_history' = IF recorded
                        THEN Append(trade_history, trade_row(confirm[c]))
                        ELSE trade_history
    /\ confirm' = [confirm EXCEPT ![c] =
                     [@ EXCEPT !.pc = IF recorded THEN "done" ELSE "raised",
                               !.result = IF recorded THEN "success" ELSE "raised"]]
    /\ UNCHANGED <<now, intents, nextIntent, issued, markLog, qvars, tvars, wvars, svars, cvars, hvars, dvars>>

\* After a Success: the SOL price lookup returns and record_trade inserts
\* the row, or the try block raises and the exception is swallowed; either
\* way the call returns success.
RecordTrade(c, recorded) ==
    /\ confirm[c].pc = "record"
    /\ trade_history' = IF recorded
                        THEN Append(trade_history, trade_row(confirm[c]))
                        ELSE trade_history
    /\ confirm' = [confirm EXCEPT ![c] = [@ EXCEPT !.pc = "done",
                                                   !.result = "success"]]
    /\ UNCHANGED <<now, intents, nextIntent, issued, markLog, qvars, tvars, wvars, svars, cvars, hvars, dvars>>

----------------------------------------------------------------------------
(* policy.py: check_policy *)

KNOWN_SAFE_MINTS ==
    {SOL_MINT, USDC_MINT, "Es9v", "mSoL", "7dHb", BONK_MINT, "JUPy"}

is_known_safe_mint(mint) == mint \in KNOWN_SAFE_MINTS

\* PolicyConfig() with its defaults
default_policy_config ==
    [MAX_SLIPPAGE_BPS        |-> 100,
     MAX_TRADE_USD           |-> 50,
     MIN_RUGCHECK_SCORE      |-> 2000,
     REQUIRE_MINT_DISABLED   |-> TRUE,
     REQUIRE_FREEZE_DISABLED |-> TRUE,
     DENY_MINTS              |-> {},
     ALLOW_MINTS             |-> {}]

\* rugcheck_result = None; a score of None; a summary of None
NoRugcheck == [absent |-> "rugcheck_result"]
NoScore == -1
NoSummary == [absent |-> "summary"]

\* One gate: its tag goes to checks_failed or to checks_passed.
gate(fails, failed_tag, passed_tag) ==
    [failed |-> IF fails THEN <<failed_tag>> ELSE <<>>,
     passed |-> IF fails THEN <<>> ELSE <<passed_tag>>]

no_gate == [failed |-> <<>>, passed |-> <<>>]

\* Mutant: a slippage equal to the maximum fails.
slippage_gate_at_limit_fails(slippage_bps, config) ==
    gate(slippage_bps >= config.MAX_SLIPPAGE_BPS, "slippage", "slippage")

\* Mutant: a notional equal to the maximum fails.
trade_size_gate_at_limit_fails(amount_usd, config) ==
    gate(amount_usd >= config.MAX_TRADE_USD, "trade_size", "trade_size")

\* 1. slippage limit, 2. trade size limit
slippage_gate(slippage_bps, config) ==
    gate(slippage_bps > config.MAX_SLIPPAGE_BPS, "slippage", "slippage")

trade_size_gate(amount_usd, config) ==
    gate(amount_usd > config.MAX_TRADE_USD, "trade_size", "trade_size")

\* Mutant: a denied mint that is known safe is let through.
deny_gates_sparing_known_safe(from_mint, to_mint, config) ==
    <<gate(from_mint \in config.DENY_MINTS \ KNOWN_SAFE_MINTS,
           "from_mint in DENY_MINTS", "from_mint not in DENY_MINTS"),
      gate(to_mint \in config.DENY_MINTS \ KNOWN_SAFE_MINTS,
           "to_mint in DENY_MINTS", "to_mint not in DENY_MINTS")>>

\* 3. deny list
deny_gates(from_mint, to_mint, config) ==
    <<gate(from_mint \in config.DENY_MINTS,
           "from_mint in DENY_MINTS", "from_mint not in DENY_MINTS"),
      gate(to_mint \in config.DENY_MINTS,
           "to_mint in DENY_MINTS", "to_mint not in DENY_MINTS")>>

\* Mutant: known safe mints do not bypass the allow list.
allow_gates_without_bypass(from_mint, to_mint, config) ==
    IF config.ALLOW_MINTS = {} THEN <<>>
    ELSE <<gate(from_mint \notin config.ALLOW_MINTS,
                "from_mint not in ALLOW_MINTS", "from_mint in ALLOW_MINTS"),
           gate(to_mint \notin config.ALLOW_MINTS,
                "to_mint not in ALLOW_MINTS", "to_mint in ALLOW_MINTS")>>

\* 4. allow list, applied only when it is set
allow_gates(from_mint, to_mint, config) ==
    IF config.ALLOW_MINTS = {} THEN <<>>
    ELSE <<gate(from_mint \notin config.ALLOW_MINTS /\ from_mint \notin KNOWN_SAFE_MINTS,
                "from_mint not in ALLOW_MINTS", "from_mint in ALLOW_MINTS"),
           gate(to_mint \notin config.ALLOW_MINTS /\ to_mint \notin KNOWN_SAFE_MINTS,
                "to_mint not in ALLOW_MINTS", "to_mint in ALLOW_MINTS")>>

\* Mutant: an unknown to_mint without a rugcheck result passes.
rugcheck_gates_result_optional(to_mint, rug, config) ==
    IF to_mint \in KNOWN_SAFE_MINTS \/ rug = NoRugcheck THEN <<>>
    ELSE <<IF rug.score = NoScore THEN no_gate
           ELSE gate(rug.score > config.MIN_RUGCHECK_SCORE,
                     "rugcheck_score", "rugcheck_score"),
           IF config.REQUIRE_MINT_DISABLED
           THEN gate(rug.summary.mintAuthority # None,
                     "mint_authority still active", "mint_authority disabled")
           ELSE no_gate,
           IF config.REQUIRE_FREEZE_DISABLED
           THEN gate(rug.summary.freezeAuthority # None,
                     "freeze_authority still active", "freeze_authority disabled")
           ELSE no_gate>>

\* 5. rugcheck, skipped for a known safe to_mint.  With a result: the score
\* gate (no tag at all when the score is None), then the authority gates
\* that the config asks for; without one: "rugcheck required".
rugcheck_gates(to_mint, rug, config) ==
    IF to_mint \in KNOWN_SAFE_MINTS THEN <<>>
    ELSE IF rug = NoRugcheck
    THEN <<gate(TRUE, "rugcheck required for unknown token", None)>>
    ELSE <<IF rug.score = NoScore THEN no_gate
           ELSE gate(rug.score > config.MIN_RUGCHECK_SCORE,
                     "rugcheck_score", "rugcheck_score"),
           IF config.REQUIRE_MINT_DISABLED
           THEN gate(rug.summary.mintAuthority # None,
                     "mint_authority still active", "mint_authority disabled")
           ELSE no_gate,
           IF config.REQUIRE_FREEZE_DISABLED
           THEN gate(rug.summary.freezeAuthority # None,
                     "freeze_authority still active", "freeze_authority disabled")
           ELSE no_gate>>

\* summary.get(...) on a summary of None raises AttributeError: it happens
\* when an authority gate is evaluated on a result whose summary is None.
check_policy_raises(to_mint, rug, config) ==
    /\ to_mint \notin KNOWN_SAFE_MINTS
    /\ rug # NoRugcheck
    /\ rug.summary = NoSummary
    /\ (config.REQUIRE_MINT_DISABLED \/ config.REQUIRE_FREEZE_DISABLED)

RECURSIVE failed_tags(_), passed_tags(_)
failed_tags(gates) ==
    IF gates = <<>> THEN <<>> ELSE Head(gates).failed \o failed_tags(Tail(gates))
passed_tags(gates) ==
    IF gates = <<>> THEN <<>> ELSE Head(gates).passed \o passed_tags(Tail(gates))

PolicyRaised == [raised |-> TRUE]

\* check_policy: the gates in their fixed order; allowed iff none failed.
check_policy(from_mint, to_mint, amount_usd, slippage_bps, rug, config) ==
    IF check_policy_raises(to_mint, rug, config) THEN PolicyRaised
    ELSE LET gates == <<slippage_gate(slippage_bps, config),
                        trade_size_gate(amount_usd, config)>>
                      \o deny_gates(from_mint, to_mint, config)
                      \o allow_gates(from_mint, to_mint, config)
                      \o rugcheck_gates(to_mint, rug, config)
         IN  [raised        |-> FALSE,
              allowed       |-> failed_tags(gates) = <<>>,
              checks_passed |-> passed_tags(gates),
              checks_failed |-> failed_tags(gates)]

\* No direct call yet
NoPolicyCall == [called |-> FALSE]

\* check_policy(from_mint, to_mint, amount_usd, slippage_bps, rugcheck_result,
\* config) called with an explicit config, as tests/test_policy.py does.
CheckPolicy(from_mint, to_mint, amount_usd, slippage_bps, rug, config) ==
    /\ policy_call' = [called |-> TRUE, from_mint |-> from_mint, to_mint |-> to_mint,
                       amount_usd |-> amount_usd, slippage_bps |-> slippage_bps,
                       rug |-> rug, config |-> config,
                       result |-> check_policy(from_mint, to_mint, amount_usd,
                                               slippage_bps, rug, config)]
    /\ UNCHANGED <<policy_env, quotes, quick_op, ivars, tvars, wvars, svars, cvars, hvars, dvars>>

----------------------------------------------------------------------------
(* solana_tools.py: solana_quote *)

QuoteIds == 1..MaxQuotes

\* Utils.is_valid_solana_address: 32 to 44 base58 characters.  "WIF" stands
\* for any argument that is a symbol and no address.
QuoteMints == {SOL_MINT, WIF_MINT, "WIF"}
is_valid_solana_address(mint) == mint \in {SOL_MINT, USDC_MINT, BONK_MINT, WIF_MINT}

NoPolicy == [absent |-> "policy_result"]

\* get_order's answer by what solana_quote reads of it: errorCode,
\* transaction and requestId, None for a key that is absent; or an exception.
Order(errorCode, transaction, requestId) ==
    [raised |-> FALSE, errorCode |-> errorCode, transaction |-> transaction,
     requestId |-> requestId]
OrderRaised == [raised |-> TRUE, errorCode |-> None, transaction |-> None, requestId |-> None]
NoOrder == Order(None, None, None)

idle_quote ==
    [pc |-> "idle", from_mint |-> None, to_mint |-> None, amount_usd |-> 0,
     slippage_bps |-> 0, policy |-> NoPolicy, order |-> NoOrder, intent_id |-> 0,
     result |-> None]

\* Mutant: the "if not policy_result.allowed" return left out.
quote_precheck_ignoring_policy(from_mint, to_mint, has_keypair, policy) ==
    IF ~is_valid_solana_address(from_mint) THEN "from_mint invalid"
    ELSE IF ~is_valid_solana_address(to_mint) THEN "to_mint invalid"
    ELSE IF ~has_keypair THEN "No wallet configured"
    ELSE IF policy.raised THEN "raised"
    ELSE "order"

\* What solana_quote returns before it asks for an order, or "order" when it
\* goes on to get_order: the address checks, the wallet, the policy check.
quote_precheck(from_mint, to_mint, has_keypair, policy) ==
    IF ~is_valid_solana_address(from_mint) THEN "from_mint invalid"
    ELSE IF ~is_valid_solana_address(to_mint) THEN "to_mint invalid"
    ELSE IF ~has_keypair THEN "No wallet configured"
    ELSE IF policy.raised THEN "raised"
    ELSE IF ~policy.allowed THEN "Policy blocked"
    ELSE "order"

\* amount_usd = amount * usdPrice, or 0 when no price came back
quote_amount_usd(amount, price) == IF price = 0 THEN 0 ELSE amount * price

\* solana_quote up to the order request: validation, keypair, price of
\* from_mint, rugcheck of an unknown to_mint, check_policy.
QuoteStart(q, from_mint, to_mint, amount, price, slippage_bps, has_keypair, fetched_rug) ==
    /\ quotes[q].pc = "idle"
    /\ LET amount_usd == quote_amount_usd(amount, price)
           rug     == IF is_known_safe_mint(to_mint) THEN NoRugcheck ELSE fetched_rug
           policy  == check_policy(from_mint, to_mint, amount_usd, slippage_bps,
                                   rug, policy_env)
           verdict == quote_precheck(from_mint, to_mint, has_keypair, policy)
           checked == is_valid_solana_address(from_mint)
                        /\ is_valid_solana_address(to_mint) /\ has_keypair
           call    == [quotes[q] EXCEPT !.from_mint = from_mint, !.to_mint = to_mint,
                                        !.amount_usd = amount_usd,
                                        !.slippage_bps = slippage_bps,
                                        !.policy = IF checked THEN policy ELSE NoPolicy]
       IN  quotes' = [quotes EXCEPT ![q] =
                IF verdict = "order"
                THEN [call EXCEPT !.pc = "order"]
                ELSE [call EXCEPT !.pc = "done", !.result = verdict]]
    /\ UNCHANGED <<policy_env, policy_call, quick_op, ivars, tvars, wvars, svars, cvars, hvars, dvars>>

OrderOutcomes == {"transaction", "errorCode", "no transaction", "raised"}

\* Mutant: the errorCode of an order is not looked at.
order_outcome_ignoring_error_code(order) ==
    IF order.raised THEN "raised"
    ELSE IF order.transaction \in {None, ""} THEN "no transaction"
    ELSE IF order.requestId = None THEN "raised"
    ELSE "transaction"

\* if order.get("errorCode") ... if not order.get("transaction") ...; then
\* order["requestId"], a KeyError when the order has none.
order_outcome(order) ==
    IF order.raised THEN "raised"
    ELSE IF order.errorCode \notin {None, ""} THEN "errorCode"
    ELSE IF order.transaction \in {None, ""} THEN "no transaction"
    ELSE IF order.requestId = None THEN "raised"
    ELSE "transaction"

\* The order comes back: an errorCode or a missing transaction ends the
\* call; otherwise create_intent stores the unsigned transaction and the
\* request id.
QuoteOrder(q, order) ==
    /\ quotes[q].pc = "order"
    /\ IF order_outcome(order) = "transaction"
       THEN /\ nextIntent \in IntentIds
            /\ intents' = create_intent(intents, nextIntent, quotes[q].from_mint,
                                        quotes[q].to_mint, order.transaction,
                                        order.requestId, now)
            /\ issued' = [i \in DOMAIN issued \cup {nextIntent} |->
                            IF i = nextIntent THEN now + INTENT_TTL_SECONDS
                            ELSE issued[i]]
            /\ nextIntent' = nextIntent + 1
            /\ quotes' = [quotes EXCEPT ![q] =
                 [@ EXCEPT !.pc = "done", !.order = order, !.intent_id = nextIntent,
                           !.result = "quoted"]]
       ELSE /\ quotes' = [quotes EXCEPT ![q] =
                 [@ EXCEPT !.pc = "done", !.order = order,
                           !.result = CASE order_outcome(order) = "errorCode" -> "Quote failed"
                                        [] order_outcome(order) = "no transaction" -> "No transaction returned"
                                        [] order_outcome(order) = "raised" -> "raised"]]
            /\ UNCHANGED <<intents, issued, nextIntent>>
    /\ UNCHANGED <<now, markLog, confirm, trade_history, policy_env, policy_call,
                   quick_op, tvars, wvars, svars, cvars, hvars, dvars>>

----------------------------------------------------------------------------
(* strategies.py: the active strategy *)

STRATEGY_PRESETS ==
    [conservative |-> [name |-> "conservative", max_trade_usd |-> 25,
                       auto_execute_under_usd |-> 10, slippage_bps |-> 50,
                       require_rugcheck |-> TRUE],
     balanced     |-> [name |-> "balanced", max_trade_usd |-> 100,
                       auto_execute_under_usd |-> 25, slippage_bps |-> 100,
                       require_rugcheck |-> TRUE],
     aggressive   |-> [name |-> "aggressive", max_trade_usd |-> 500,
                       auto_execute_under_usd |-> 50, slippage_bps |-> 200,
                       require_rugcheck |-> FALSE],
     degen        |-> [name |-> "degen", max_trade_usd |-> 1000,
                       auto_execute_under_usd |-> 100, slippage_bps |-> 500,
                       require_rugcheck |-> FALSE]]

DEFAULT_STRATEGY == "balanced"

\* set_strategy(preset): the preset becomes the active row
SetStrategy(preset) ==
    /\ strategy # STRATEGY_PRESETS[preset]
    /\ strategy' = STRATEGY_PRESETS[preset]
    /\ UNCHANGED <<targets, nextTarget, daemon, sells, observed, ivars, qvars, wvars, svars, cvars, hvars, dvars>>

----------------------------------------------------------------------------
(* config.py: the encrypted user config and the RPC provider settings *)

\* config.enc does not exist; a config dict, None standing for an absent key
NoConfigFile == [exists |-> FALSE]
UserConfig(rpc_provider, rpc_value, jupiter_api_key) ==
    [exists |-> TRUE, rpc_provider |-> rpc_provider, rpc_value |-> rpc_value,
     jupiter_api_key |-> jupiter_api_key]

\* load_user_config() or {}
load_user_config_or_empty(file) ==
    IF file.exists THEN file ELSE UserConfig(None, None, None)

RPC_PROVIDERS == {"helius", "alchemy", "quicknode", "custom"}

\* The values of the model and what the validation looks at in each: whether
\* it has at least 5 characters, whether it is alphanumeric once "-" and "_"
\* are removed, how it starts, whether it contains "quiknode.pro".
RpcValues ==
    {"", "abc", "abc-123_DEF", "key2-XYZ", "bad key!",
     "https://ep.solana-mainnet.quiknode.pro/t", "https://rpc.example.com",
     "http://localhost:8899", "ftp://rpc.example.com"}
long_enough(value) == value \notin {"", "abc"}
is_alnum_key(value) == value \in {"abc", "abc-123_DEF", "key2-XYZ"}
starts_https(value) ==
    value \in {"https://ep.solana-mainnet.quiknode.pro/t", "https://rpc.example.com"}
starts_http(value) == value = "http://localhost:8899"
has_quiknode_pro(value) == value = "https://ep.solana-mainnet.quiknode.pro/t"

\* _validate_rpc_config: None when valid, else the error message
validate_rpc_config(provider, value) ==
    IF provider \notin RPC_PROVIDERS THEN "Invalid provider"
    ELSE IF ~long_enough(value) THEN "Value too short"
    ELSE IF provider = "helius" /\ ~is_alnum_key(value) THEN "Invalid Helius API key format"
    ELSE IF provider = "alchemy" /\ ~is_alnum_key(value) THEN "Invalid Alchemy API key format"
    ELSE IF provider = "quicknode" /\ (~starts_https(value) \/ ~has_quiknode_pro(value))
    THEN "Invalid Quicknode URL"
    ELSE IF provider = "custom" /\ ~starts_https(value) /\ ~starts_http(value)
    THEN "Custom RPC URL must start with https:// or http://"
    ELSE None

\* Mutant: the config is saved before the validation result is looked at.
set_rpc_config_saving_first(file, provider, value) ==
    [load_user_config_or_empty(file) EXCEPT !.rpc_provider = provider, !.rpc_value = value]

\* set_rpc_config: the file afterwards.  save_user_config merges the two keys
\* into the existing config.
set_rpc_config(file, provider, value) ==
    IF validate_rpc_config(provider, value) # None THEN file
    ELSE [load_user_config_or_empty(file) EXCEPT !.rpc_provider = provider, !.rpc_value = value]

SetRpcConfig(provider, value) ==
    /\ user_config' = set_rpc_config(user_config, provider, value)
    /\ config_op' = [op |-> "set_rpc_config", provider |-> provider, value |-> value,
                     success |-> validate_rpc_config(provider, value) = None,
                     error |-> validate_rpc_config(provider, value)]
    /\ UNCHANGED <<ivars, qvars, tvars, wvars, svars, hvars, dvars>>

\* clear_rpc_config: both keys popped, the rest written back (merge=False)
ClearRpcConfig ==
    /\ user_config' = [load_user_config_or_empty(user_config) EXCEPT !.rpc_provider = None, !.rpc_value = None]
    /\ config_op' = [op |-> "clear_rpc_config", provider |-> None, value |-> None,
                     success |-> TRUE, error |-> None]
    /\ UNCHANGED <<ivars, qvars, tvars, wvars, svars, hvars, dvars>>

\* set_jupiter_api_key: a key of at least 10 characters is merged in.
JupiterApiKeys == {"abc", "jup-key-0123456789"}
SetJupiterApiKey(api_key) ==
    /\ user_config' = IF api_key = "abc" THEN user_config
                      ELSE [load_user_config_or_empty(user_config) EXCEPT !.jupiter_api_key = api_key]
    /\ config_op' = [op |-> "set_jupiter_api_key", provider |-> None, value |-> api_key,
                     success |-> api_key # "abc",
                     error |-> IF api_key = "abc" THEN "Invalid API key format" ELSE None]
    /\ UNCHANGED <<ivars, qvars, tvars, wvars, svars, hvars, dvars>>

\* The providers a caller may name: the four known ones, one of them in
\* another case, an unknown one.
RpcProviderArgs == RPC_PROVIDERS \cup {"Helius", "triton"}

----------------------------------------------------------------------------
(* strategies.py: the strategies table and set_strategy with overrides *)

\* An argument of set_strategy that is None, or given with a value
NoOverride == [given |-> FALSE, value |-> 0]
Override(value) == [given |-> TRUE, value |-> value]
NoFlag == [given |-> FALSE, value |-> FALSE]
Flag(value) == [given |-> TRUE, value |-> value]

\* The TradingStrategy of a row of the table
row_strategy(row) ==
    [name |-> row.name, max_trade_usd |-> row.max_trade_usd,
     auto_execute_under_usd |-> row.auto_execute_under_usd,
     slippage_bps |-> row.slippage_bps, require_rugcheck |-> row.require_rugcheck]

\* The row _save_strategy writes for a TradingStrategy
strategy_row(strat, is_active) ==
    [name |-> strat.name, max_trade_usd |-> strat.max_trade_usd,
     auto_execute_under_usd |-> strat.auto_execute_under_usd,
     slippage_bps |-> strat.slippage_bps, require_rugcheck |-> strat.require_rugcheck,
     is_active |-> is_active]

\* SELECT ... FROM strategies WHERE is_active = 1
active_rows(rows) == {n \in DOMAIN rows : rows[n].is_active = 1}

\* get_active_strategy: the row fetchone returns of the active ones, else the
\* default preset.
get_active_strategy(rows) ==
    IF active_rows(rows) # {}
    THEN row_strategy(rows[CHOOSE n \in active_rows(rows) : TRUE])
    ELSE STRATEGY_PRESETS[DEFAULT_STRATEGY]

\* Mutant: _save_strategy without "UPDATE strategies SET is_active = 0".
save_strategy_without_demotion(rows, strat) ==
    [n \in DOMAIN rows \cup {strat.name} |->
        IF n = strat.name THEN strategy_row(strat, 1) ELSE rows[n]]

\* _save_strategy(strategy, is_active=True), one transaction: every row is
\* set to is_active = 0, then the row of that name is updated or inserted
\* with is_active = 1; commit.
save_strategy(rows, strat) ==
    [n \in DOMAIN rows \cup {strat.name} |->
        IF n = strat.name THEN strategy_row(strat, 1)
        ELSE [rows[n] EXCEPT !.is_active = 0]]

\* Mutant: set_strategy without the "# Validate" clamp.
validated_strategy_unclamped(strat) == strat

\* if auto_execute_under_usd > max_trade_usd: auto_execute_under_usd = max_trade_usd
validated_strategy(strat) ==
    IF strat.auto_execute_under_usd > strat.max_trade_usd
    THEN [strat EXCEPT !.auto_execute_under_usd = strat.max_trade_usd]
    ELSE strat

\* set_strategy up to the save: the preset of that name or else the active
\* strategy as "custom"; each override given replaces its field and names the
\* strategy "custom"; then the validation.
new_strategy(rows, preset, max_trade_usd, auto_execute_under_usd, slippage_bps, require_rugcheck) ==
    LET base == IF preset \in DOMAIN STRATEGY_PRESETS
                THEN STRATEGY_PRESETS[preset]
                ELSE [get_active_strategy(rows) EXCEPT !.name = "custom"]
        any  == \/ max_trade_usd.given \/ auto_execute_under_usd.given
                \/ slippage_bps.given \/ require_rugcheck.given
        with == [name |-> IF any THEN "custom" ELSE base.name,
                 max_trade_usd |-> IF max_trade_usd.given THEN max_trade_usd.value
                                   ELSE base.max_trade_usd,
                 auto_execute_under_usd |->
                     IF auto_execute_under_usd.given THEN auto_execute_under_usd.value
                     ELSE base.auto_execute_under_usd,
                 slippage_bps |-> IF slippage_bps.given THEN slippage_bps.value
                                  ELSE base.slippage_bps,
                 require_rugcheck |-> IF require_rugcheck.given
                                      THEN require_rugcheck.value
                                      ELSE base.require_rugcheck]
    IN  validated_strategy(with)

\* set_strategy(strategy, max_trade_usd, auto_execute_under_usd, slippage_bps,
\* require_rugcheck): the new strategy is saved as the active one.
SetStrategyCall(preset, max_trade_usd, auto_execute_under_usd, slippage_bps, require_rugcheck) ==
    /\ strategies' = save_strategy(strategies,
                        new_strategy(strategies, preset, max_trade_usd,
                                     auto_execute_under_usd, slippage_bps,
                                     require_rugcheck))
    /\ strategy' = get_active_strategy(strategies')
    /\ UNCHANGED <<pnl_snapshots, pnl_op, targets, nextTarget, daemon, sells, observed,
                   ivars, qvars, wvars, cvars, hvars, dvars>>

----------------------------------------------------------------------------
(* strategies.py: the PnL baseline snapshots *)

\* fetchone() found no row
NoBaseline == [missing |-> "baseline"]

\* solana_get_wallet returned an error
WalletError == [error |-> TRUE]

\* The row pnl_init inserts: the next rowid, CURRENT_TIMESTAMP, and the
\* values of the wallet or the starting value given.
snapshot_row(rows, timestamp, sol_balance, sol_value_usd, total_value_usd) ==
    [id |-> IF rows = <<>> THEN 1 ELSE rows[Len(rows)].id + 1,
     timestamp |-> timestamp, sol_balance |-> sol_balance,
     sol_value_usd |-> sol_value_usd, total_value_usd |-> total_value_usd,
     trigger |-> "init"]

\* Mutant: the latest init snapshot is taken for the baseline.
get_pnl_baseline_latest(rows) ==
    LET inits == {i \in DOMAIN rows : rows[i].trigger = "init"}
    IN  IF inits = {} THEN NoBaseline
        ELSE LET first == CHOOSE i \in inits : \A j \in inits : i >= j
             IN  [timestamp |-> rows[first].timestamp,
                  sol_balance |-> rows[first].sol_balance,
                  sol_value_usd |-> rows[first].sol_value_usd,
                  total_value_usd |-> rows[first].total_value_usd,
                  trigger |-> rows[first].trigger]

\* get_pnl_baseline: WHERE trigger = 'init' ORDER BY timestamp ASC LIMIT 1.
\* Among rows with the same timestamp (CURRENT_TIMESTAMP counts whole
\* seconds) SQLite's sorter returns the one inserted first.
get_pnl_baseline(rows) ==
    LET inits == {i \in DOMAIN rows : rows[i].trigger = "init"}
    IN  IF inits = {} THEN NoBaseline
        ELSE LET first == CHOOSE i \in inits : \A j \in inits :
                              \/ rows[i].timestamp < rows[j].timestamp
                              \/ rows[i].timestamp = rows[j].timestamp /\ i <= j
             IN  [timestamp |-> rows[first].timestamp,
                  sol_balance |-> rows[first].sol_balance,
                  sol_value_usd |-> rows[first].sol_value_usd,
                  total_value_usd |-> rows[first].total_value_usd,
                  trigger |-> rows[first].trigger]

\* pnl_init(starting_value): the value given becomes total_value_usd.
PnlInit(starting_value) ==
    /\ pnl_op.call < MaxPnlCalls
    /\ pnl_snapshots' = Append(pnl_snapshots,
                               snapshot_row(pnl_snapshots, now, 0, 0, starting_value))
    /\ pnl_op' = [op |-> "pnl_init", call |-> pnl_op.call + 1, result |-> "success"]
    /\ UNCHANGED <<strategies, strategy, targets, nextTarget, daemon, sells, observed,
                   ivars, qvars, wvars, cvars, hvars, dvars>>

\* pnl_init(): the wallet is fetched; an error there ends the call, else the
\* SOL value plus the token values become total_value_usd.
PnlInitFromWallet(wallet) ==
    /\ pnl_op.call < MaxPnlCalls
    /\ pnl_snapshots' =
          IF wallet = WalletError THEN pnl_snapshots
          ELSE Append(pnl_snapshots,
                      snapshot_row(pnl_snapshots, now, wallet.sol_balance,
                                   wallet.sol_value_usd,
                                   wallet.sol_value_usd + wallet.token_value_usd))
    /\ pnl_op' = [op |-> "pnl_init", call |-> pnl_op.call + 1,
                  result |-> IF wallet = WalletError
                             THEN "Could not fetch wallet balance" ELSE "success"]
    /\ UNCHANGED <<strategies, strategy, targets, nextTarget, daemon, sells, observed,
                   ivars, qvars, wvars, cvars, hvars, dvars>>

\* pnl_with_baseline: reads the baseline, the trade history and the wallet;
\* without trades get_portfolio_pnl's error is returned as it is.
PnlWithBaseline(current_total) ==
    /\ pnl_op.call < MaxPnlCalls
    /\ pnl_op' = [op |-> "pnl_with_baseline", call |-> pnl_op.call + 1,
                  result |->
                     IF trade_history = <<>> THEN [error |-> "No trade history found"]
                     ELSE IF get_pnl_baseline(pnl_snapshots) = NoBaseline
                     THEN [current_value_usd |-> current_total]
                     ELSE [current_value_usd |-> current_total,
                           baseline |-> get_pnl_baseline(pnl_snapshots),
                           pnl_vs_baseline |-> current_total
                               - get_pnl_baseline(pnl_snapshots).total_value_usd]]
    /\ UNCHANGED <<pnl_snapshots, strategies, strategy, targets, nextTarget, daemon,
                   sells, observed, ivars, qvars, wvars, cvars, hvars, dvars>>

\* pnl_reset: DELETE FROM pnl_snapshots WHERE trigger = 'init'
PnlReset ==
    /\ pnl_op.call < MaxPnlCalls
    /\ pnl_snapshots' = SelectSeq(pnl_snapshots, LAMBDA row : row.trigger # "init")
    /\ pnl_op' = [op |-> "pnl_reset", call |-> pnl_op.call + 1,
                  result |-> Len(pnl_snapshots) - Len(pnl_snapshots')]
    /\ UNCHANGED <<strategies, strategy, targets, nextTarget, daemon, sells, observed,
                   ivars, qvars, wvars, cvars, hvars, dvars>>

\* record_trade called directly: one row appended to trade_history.
RecordTradeCall(action, mint, amount_tokens, amount_usd) ==
    /\ Len(trade_history) < MaxTrades
    /\ trade_history' = Append(trade_history,
          [action |-> action, mint |-> mint, amount_tokens |-> amount_tokens,
           amount_usd |-> amount_usd, timestamp |-> now,
           signature |-> Len(trade_history) + 1])
    /\ UNCHANGED <<now, intents, nextIntent, issued, markLog, confirm,
                   qvars, tvars, wvars, svars, cvars, hvars, dvars>>

\* record_trade called directly, any number of times up to MaxHistory
RecordTradeMany(action, mint, amount_tokens, amount_usd) ==
    /\ Len(trade_history) < MaxHistory
    /\ trade_history' = Append(trade_history,
          [action |-> action, mint |-> mint, amount_tokens |-> amount_tokens,
           amount_usd |-> amount_usd, timestamp |-> now,
           signature |-> Len(trade_history) + 1])
    /\ UNCHANGED <<now, intents, nextIntent, issued, markLog, confirm,
                   qvars, tvars, wvars, svars, cvars, hvars, dvars>>

\* ORDER BY timestamp DESC: the position in `rows` of the row that comes
\* first, the greatest timestamp and among equal ones the lowest rowid
\* (SQL leaves the order of equal timestamps open; SQLite 3.40.1 does this).
newest_index(rows) ==
    CHOOSE k \in 1..Len(rows) :
        /\ \A j \in 1..Len(rows) : rows[j].timestamp <= rows[k].timestamp
        /\ \A j \in 1..(k - 1) : rows[j].timestamp < rows[k].timestamp

without_index(rows, k) ==
    [j \in 1..(Len(rows) - 1) |-> IF j < k THEN rows[j] ELSE rows[j + 1]]

RECURSIVE newest_first(_, _)
\* ORDER BY timestamp DESC LIMIT limit
newest_first(rows, limit) ==
    IF rows = <<>> \/ limit = 0 THEN <<>>
    ELSE LET k == newest_index(rows)
         IN  <<rows[k]>> \o newest_first(without_index(rows, k), limit - 1)

\* get_trade_history(mint, limit): SELECT ... FROM trade_history
\* WHERE mint = ? ORDER BY timestamp DESC LIMIT ?
get_trade_history(rows, mint, limit) ==
    newest_first(SelectSeq(rows, LAMBDA row : row.mint = mint), limit)

RECURSIVE total_of(_, _, _)
\* the sum of column `field` over the rows of `trades` with this action
total_of(trades, action, field) ==
    IF trades = <<>> THEN 0
    ELSE (IF Head(trades).action = action THEN Head(trades)[field] ELSE 0)
         + total_of(Tail(trades), action, field)

\* calculate_pnl_for_token(mint, current_price): the four totals and the
\* holdings derived from them (the average buy price and the PnL figures
\* are quotients of these and are left out)
calculate_pnl_for_token(rows, mint, current_price) ==
    LET trades == get_trade_history(rows, mint, DEFAULT_HISTORY_LIMIT)
        total_bought_tokens == total_of(trades, "buy", "amount_tokens")
        total_sold_tokens == total_of(trades, "sell", "amount_tokens")
    IN  IF trades = <<>> THEN [error |-> "No trade history for this token"]
        ELSE [mint |-> mint,
              total_bought_tokens |-> total_bought_tokens,
              total_bought_usd |-> total_of(trades, "buy", "amount_usd"),
              total_sold_tokens |-> total_sold_tokens,
              total_sold_usd |-> total_of(trades, "sell", "amount_usd"),
              current_holdings |-> total_bought_tokens - total_sold_tokens,
              holdings_value_usd |-> (total_bought_tokens - total_sold_tokens) * current_price,
              trade_count |-> Len(trades)]

CalculatePnlForToken(mint, current_price) ==
    /\ pnl_op.call < MaxPnlCalls
    /\ pnl_op' = [op |-> "calculate_pnl_for_token", call |-> pnl_op.call + 1,
                  result |-> calculate_pnl_for_token(trade_history, mint, current_price)]
    /\ UNCHANGED <<strategies, pnl_snapshots, ivars, qvars, tvars, wvars, cvars, hvars, dvars>>

----------------------------------------------------------------------------
(* targets.py: the targets table *)

\* A NULL price column (entry_price, peak_value, trigger_price); the code
\* reads it as COALESCE(x, 0) or tests "is None or <= 0".
NoPrice == 0

\* sell_amount: 'all', 'N%', 'usd:X'
SellAll == [kind |-> "all", n |-> 0]
SellPct(n) == [kind |-> "pct", n |-> n]
SellUsd(x) == [kind |-> "usd", n |-> x]

\* The row add_target inserts: status 'pending'; peak_value = entry_price for
\* a trailing stop, else NULL; notes as given (None by default), and no
\* statement of the program writes the column afterwards.
new_target_row(id, mint, target_type, target_value, sell_amount, entry_price) ==
    [id                  |-> id,
     mint                |-> mint,
     target_type         |-> target_type,
     target_value        |-> target_value,
     sell_amount         |-> sell_amount,
     status              |-> "pending",
     entry_price         |-> entry_price,
     peak_value          |-> IF target_type = "trailing_stop" THEN entry_price
                             ELSE NoPrice,
     trigger_price       |-> NoPrice,
     execution_signature |-> None,
     notes               |-> None]

RECURSIVE ids_descending(_)
ids_descending(ids) ==
    IF ids = {} THEN <<>>
    ELSE LET top == CHOOSE i \in ids : \A j \in ids : j <= i
         IN  <<top>> \o ids_descending(ids \ {top})

\* SELECT * FROM targets WHERE status = 'pending' ORDER BY created_at DESC
get_active_targets(rows) ==
    LET order == ids_descending({i \in DOMAIN rows : rows[i].status = "pending"})
    IN  [k \in 1..Len(order) |-> rows[order[k]]]

\* UPDATE targets SET status = 'cancelled' WHERE id = ?
remove_target(rows, id) ==
    IF id \in DOMAIN rows THEN [rows EXCEPT ![id].status = "cancelled"] ELSE rows

\* DELETE FROM targets WHERE id = ?
delete_target(rows, id) == [i \in DOMAIN rows \ {id} |-> rows[i]]

\* UPDATE targets SET status = 'triggered', trigger_price = ? WHERE id = ?
mark_target_triggered(rows, id, trigger_price) ==
    IF id \in DOMAIN rows
    THEN [rows EXCEPT ![id].status = "triggered", ![id].trigger_price = trigger_price]
    ELSE rows

\* UPDATE targets SET status = 'executed', execution_signature = ? WHERE id = ?
mark_target_executed(rows, id, signature) ==
    IF id \in DOMAIN rows
    THEN [rows EXCEPT ![id].status = "executed", ![id].execution_signature = signature]
    ELSE rows

\* Mutant: the UPDATE without MAX, the peak follows the price.
update_trailing_peak_without_max(rows, id, current_price) ==
    IF id \in DOMAIN rows /\ rows[id].target_type = "trailing_stop"
    THEN [rows EXCEPT ![id].peak_value = current_price]
    ELSE rows

\* UPDATE targets SET peak_value = MAX(COALESCE(peak_value, 0), ?)
\* WHERE id = ? AND target_type = 'trailing_stop'
update_trailing_peak(rows, id, current_price) ==
    IF id \in DOMAIN rows /\ rows[id].target_type = "trailing_stop"
    THEN [rows EXCEPT ![id].peak_value = IF @ >= current_price THEN @
                                         ELSE current_price]
    ELSE rows

\* check_target: only a pending target can be met.  The percentages are
\* compared after multiplying out the division by the (positive) base.
check_target(target, current_price, current_mcap) ==
    IF target.status # "pending" THEN FALSE
    ELSE CASE target.target_type = "mcap" ->
                current_mcap # NoPrice /\ current_mcap >= target.target_value
           [] target.target_type = "price" ->
                current_price >= target.target_value
           [] target.target_type = "pct_gain" ->
                /\ target.entry_price > 0
                /\ (current_price - target.entry_price) * 100
                      >= target.target_value * target.entry_price
           [] target.target_type = "trailing_stop" ->
                /\ target.peak_value > 0
                /\ (target.peak_value - current_price) * 100
                      >= target.target_value * target.peak_value
           [] OTHER -> FALSE

\* parse_sell_amount: the token amount to sell.  The inputs of the model are
\* chosen so that each division is exact.
parse_sell_amount(sell_amount, holdings_value_usd, token_amount) ==
    IF sell_amount.kind = "all" \/ (sell_amount.kind = "pct" /\ sell_amount.n = 100)
    THEN token_amount
    ELSE IF sell_amount.kind = "pct"
    THEN (token_amount * sell_amount.n) \div 100
    ELSE LET price_per_token == IF token_amount > 0
                                THEN holdings_value_usd \div token_amount ELSE 0
         IN  IF price_per_token > 0
             THEN IF sell_amount.n \div price_per_token <= token_amount
                  THEN sell_amount.n \div price_per_token ELSE token_amount
             ELSE 0

----------------------------------------------------------------------------
(* solana_tools.py: quick_trade("sell", ...) as execute_target_sell calls it *)

\* What the aggregator answers to the execute request of the inner
\* solana_swap_confirm, after the retries of _make_request.
SellExecOutcomes == {"Success", "Failed", "raised"}

\* A result dict, by what its readers test: result.get("success") and
\* result.get("auto_executed") are truthy or not, result.get("signature") is
\* a string or None.  `kind` names the return statement that built it;
\* `raised` stands for an exception in place of a result.
sell_result(kind, success, auto_executed, signature) ==
    [kind |-> kind, raised |-> FALSE, success |-> success,
     auto_executed |-> auto_executed, signature |-> signature]

sell_raised(kind) ==
    [kind |-> kind, raised |-> TRUE, success |-> FALSE,
     auto_executed |-> FALSE, signature |-> None]

\* The signature the aggregator reports for the transaction of an intent
signature_of(intent_id) == ToString(intent_id)

\* quick_trade("sell", mint, amount_usd): the limit check (which compares the
\* string "all" with a float and raises TypeError), the price of the token,
\* solana_quote with the strategy's slippage, then solana_swap_confirm when
\* the amount is at most auto_execute_under_usd, else the quote is returned
\* for confirmation.  The exec result is merged over "auto_executed": True.
quick_trade(is_all, mint, amount_usd, strat, price_ok, config, order, exec, intent_id) ==
    IF is_all THEN sell_raised("TypeError")
    ELSE IF amount_usd > strat.max_trade_usd
    THEN sell_result("Trade exceeds limit", FALSE, FALSE, None)
    ELSE IF ~price_ok
    THEN sell_result("Could not get price", FALSE, FALSE, None)
    ELSE LET policy  == check_policy(mint, SOL_MINT, amount_usd, strat.slippage_bps,
                                     NoRugcheck, config)
             verdict == quote_precheck(mint, SOL_MINT, TRUE, policy)
         IN  IF verdict # "order" THEN sell_result(verdict, FALSE, FALSE, None)
             ELSE IF order = "raised" THEN sell_raised("get_order")
             ELSE IF order # "transaction" THEN sell_result(order, FALSE, FALSE, None)
             ELSE IF amount_usd <= strat.auto_execute_under_usd
             THEN CASE exec = "Success" ->
                         sell_result("swap_success", TRUE, TRUE, signature_of(intent_id))
                    [] exec = "Failed" ->
                         sell_result("swap_failed", FALSE, TRUE, "")
                    [] exec = "raised" -> sell_raised("execute_swap")
             ELSE sell_result("requires_confirmation", FALSE, FALSE, None)

\* The results after which solana_quote has stored an intent
QuotedKinds == {"requires_confirmation", "swap_success", "swap_failed", "execute_swap"}

\* The results after which solana_swap_confirm has run mark_executed
MarkedKinds == {"swap_success", "swap_failed"}

----------------------------------------------------------------------------
(* solana_tools.py: quick_trade called by the user, buying or selling *)

NoQuickTrade == [call |-> 0]

\* check_token's is_safe for a report without critical risks
rug_is_safe(rug) == rug.score # NoScore /\ rug.score <= 2000

\* Mutant: every quote is executed at once, whatever the amount.
quick_trade_user_always_executing(action, mint, amount_usd, strat, price_ok, rug, config, order, exec, intent_id) ==
    LET from_mint == IF action = "buy" THEN SOL_MINT ELSE mint
        to_mint   == IF action = "buy" THEN mint ELSE SOL_MINT
    IN  IF amount_usd > strat.max_trade_usd
        THEN sell_result("Trade exceeds limit", FALSE, FALSE, None)
        ELSE IF ~price_ok
        THEN sell_result("Could not get price", FALSE, FALSE, None)
        ELSE IF action = "buy" /\ strat.require_rugcheck /\ ~is_known_safe_mint(to_mint)
                  /\ ~rug_is_safe(rug)
        THEN sell_result("Safety check failed", FALSE, FALSE, None)
        ELSE LET policy  == check_policy(from_mint, to_mint, amount_usd, strat.slippage_bps,
                                         IF is_known_safe_mint(to_mint) THEN NoRugcheck ELSE rug,
                                         config)
                 verdict == quote_precheck(from_mint, to_mint, TRUE, policy)
             IN  IF verdict = "raised" THEN sell_raised("check_policy")
                 ELSE IF verdict # "order" THEN sell_result(verdict, FALSE, FALSE, None)
                 ELSE IF order = "raised" THEN sell_raised("get_order")
                 ELSE IF order # "transaction" THEN sell_result(order, FALSE, FALSE, None)
                 ELSE CASE exec = "Success" ->
                             sell_result("swap_success", TRUE, TRUE, signature_of(intent_id))
                        [] exec = "Failed" ->
                             sell_result("swap_failed", FALSE, TRUE, "")
                        [] exec = "raised" -> sell_raised("execute_swap")

\* quick_trade(action, token, amount_usd): the limit check, the price of
\* from_mint, for a buy under require_rugcheck the safety check of an unknown
\* token, solana_quote with the strategy's slippage, then solana_swap_confirm
\* when amount_usd <= auto_execute_under_usd, else the quote for confirmation.
quick_trade_user(action, mint, amount_usd, strat, price_ok, rug, config, order, exec, intent_id) ==
    LET from_mint == IF action = "buy" THEN SOL_MINT ELSE mint
        to_mint   == IF action = "buy" THEN mint ELSE SOL_MINT
    IN  IF amount_usd > strat.max_trade_usd
        THEN sell_result("Trade exceeds limit", FALSE, FALSE, None)
        ELSE IF ~price_ok
        THEN sell_result("Could not get price", FALSE, FALSE, None)
        ELSE IF action = "buy" /\ strat.require_rugcheck /\ ~is_known_safe_mint(to_mint)
                  /\ ~rug_is_safe(rug)
        THEN sell_result("Safety check failed", FALSE, FALSE, None)
        ELSE LET policy  == check_policy(from_mint, to_mint, amount_usd, strat.slippage_bps,
                                         IF is_known_safe_mint(to_mint) THEN NoRugcheck ELSE rug,
                                         config)
                 verdict == quote_precheck(from_mint, to_mint, TRUE, policy)
             IN  IF verdict = "raised" THEN sell_raised("check_policy")
                 ELSE IF verdict # "order" THEN sell_result(verdict, FALSE, FALSE, None)
                 ELSE IF order = "raised" THEN sell_raised("get_order")
                 ELSE IF order # "transaction" THEN sell_result(order, FALSE, FALSE, None)
                 ELSE IF amount_usd <= strat.auto_execute_under_usd
                 THEN CASE exec = "Success" ->
                             sell_result("swap_success", TRUE, TRUE, signature_of(intent_id))
                        [] exec = "Failed" ->
                             sell_result("swap_failed", FALSE, TRUE, "")
                        [] exec = "raised" -> sell_raised("execute_swap")
                 ELSE sell_result("requires_confirmation", FALSE, FALSE, None)

\* What the inner solana_quote and solana_swap_confirm leave in intents.db
quick_intents(rows, result, from_mint, to_mint, intent_id, t) ==
    IF result.kind \notin QuotedKinds THEN rows
    ELSE LET quoted == create_intent(rows, intent_id, from_mint, to_mint,
                                     "txA", "reqA", t)
         IN  IF result.kind \in MarkedKinds
             THEN mark_executed_rows(quoted, intent_id) ELSE quoted

\* One quick_trade call from its start to its return.
QuickTrade(action, mint, amount_usd, price_ok, rug, order, exec, recorded) ==
    /\ nextIntent \in IntentIds
    /\ quick_op.call < MaxQuickTrades
    /\ LET result == quick_trade_user(action, mint, amount_usd, strategy, price_ok, rug,
                                      policy_env, order, exec, nextIntent)
           quoted == result.kind \in QuotedKinds
           from_mint == IF action = "buy" THEN SOL_MINT ELSE mint
           to_mint   == IF action = "buy" THEN mint ELSE SOL_MINT
       IN  /\ intents' = quick_intents(intents, result, from_mint, to_mint, nextIntent, now)
           /\ nextIntent' = IF quoted THEN nextIntent + 1 ELSE nextIntent
           /\ issued' = IF quoted
                        THEN [i \in DOMAIN issued \cup {nextIntent} |->
                                IF i = nextIntent THEN now + INTENT_TTL_SECONDS
                                ELSE issued[i]]
                        ELSE issued
           /\ trade_history' =
                 IF result.kind = "swap_success" /\ recorded
                 THEN Append(trade_history,
                             [action |-> action, mint |-> mint, signature |-> nextIntent])
                 ELSE trade_history
           /\ quick_op' = [call |-> quick_op.call + 1, action |-> action, mint |-> mint,
                           amount_usd |-> amount_usd,
                           auto_execute_under_usd |-> strategy.auto_execute_under_usd,
                           result |-> result, intent_id |-> nextIntent]
    /\ UNCHANGED <<now, markLog, confirm, policy_env, quotes, policy_call,
                   tvars, wvars, svars, cvars, hvars, dvars>>

----------------------------------------------------------------------------
(* targets.py: execute_target_sell *)

\* solana_get_wallet: it raises, or the token is not among the holdings, or
\* it is held with an amount and a USD value.
NoHoldings == [kind |-> "absent", amount |-> 0, value_usd |-> 0]
WalletRaised == [kind |-> "raised", amount |-> 0, value_usd |-> 0]
Holdings(amount, value_usd) ==
    [kind |-> "held", amount |-> amount, value_usd |-> value_usd]

\* if result.get("success") or result.get("auto_executed")
sell_marks_executed(result) == result.success \/ result.auto_executed

\* execute_target_sell up to the status update: the early returns on the
\* holdings, then quick_trade with "all" or with sell_tokens * current_price.
execute_target_sell(target, current_price, wallet, strat, price_ok, config, order, exec, intent_id) ==
    IF wallet.kind = "raised" THEN sell_raised("solana_get_wallet")
    ELSE IF wallet.kind = "absent"
    THEN sell_result("not found in wallet", FALSE, FALSE, None)
    ELSE IF wallet.amount <= 0
    THEN sell_result("no holdings", FALSE, FALSE, None)
    ELSE LET sell_tokens == parse_sell_amount(target.sell_amount, wallet.value_usd,
                                              wallet.amount)
         IN  IF sell_tokens <= 0
             THEN sell_result("sell amount is zero", FALSE, FALSE, None)
             ELSE quick_trade(target.sell_amount.kind = "all", target.mint,
                              sell_tokens * current_price, strat, price_ok,
                              config, order, exec, intent_id)

\* The early returns leave the row as it is; so does an exception.
EarlyKinds == {"not found in wallet", "no holdings", "sell amount is zero"}

\* The update of the target row that ends execute_target_sell.
sell_status_update(rows, target, current_price, result) ==
    IF result.raised \/ result.kind \in EarlyKinds THEN rows
    ELSE IF sell_marks_executed(result)
    THEN mark_target_executed(rows, target.id, result.signature)
    ELSE mark_target_triggered(rows, target.id, current_price)

\* What the inner solana_quote and solana_swap_confirm leave in intents.db
\* and in trade_history.
sell_intents(rows, result, mint, intent_id, t) ==
    IF result.kind \notin QuotedKinds THEN rows
    ELSE LET quoted == create_intent(rows, intent_id, mint, SOL_MINT,
                                     "txA", "reqA", t)
         IN  IF result.kind \in MarkedKinds
             THEN mark_executed_rows(quoted, intent_id) ELSE quoted

sell_trades(history, result, mint, intent_id, recorded) ==
    IF result.kind = "swap_success" /\ recorded
    THEN Append(history, [action |-> "sell", mint |-> mint, signature |-> intent_id])
    ELSE history

----------------------------------------------------------------------------
(* The users of the targets table: add_target, remove_target, delete_target *)

TargetIds == 1..MaxTargets

\* The targets a user sets in the model, all on one token:
\* <<target_type, target_value, sell_amount, entry_price>>
TargetTemplates ==
    {<<"price", 4, SellPct(50), 2>>,
     <<"price", 4, SellAll, 2>>,
     <<"pct_gain", 100, SellPct(100), 2>>,
     <<"trailing_stop", 50, SellUsd(4), 2>>,
     <<"mcap", 1000, SellPct(50), 2>>}

AddTarget(tpl) ==
    /\ nextTarget \in TargetIds
    /\ targets' = [i \in DOMAIN targets \cup {nextTarget} |->
                     IF i = nextTarget
                     THEN new_target_row(nextTarget, WIF_MINT, tpl[1], tpl[2],
                                         tpl[3], tpl[4])
                     ELSE targets[i]]
    /\ nextTarget' = nextTarget + 1
    /\ UNCHANGED <<strategy, daemon, sells, observed, ivars, qvars, wvars, svars, cvars, hvars, dvars>>

RemoveTarget(id) ==
    /\ id \in DOMAIN targets
    /\ targets' = remove_target(targets, id)
    /\ UNCHANGED <<strategy, nextTarget, daemon, sells, observed, ivars, qvars, wvars, svars, cvars, hvars, dvars>>

DeleteTarget(id) ==
    /\ id \in DOMAIN targets
    /\ targets' = delete_target(targets, id)
    /\ UNCHANGED <<strategy, nextTarget, daemon, sells, observed, ivars, qvars, wvars, svars, cvars, hvars, dvars>>

----------------------------------------------------------------------------
(* daemon.py: SlopeSniperDaemon.run and _check_cycle *)

idle_daemon ==
    [pc |-> "sleep", cycle |-> 0, batch |-> <<>>, idx |-> 0,
     price |-> 0, mcap |-> NoPrice, cycle_errors |-> 0]

\* The for loop moves to the next target of the batch; after the last one
\* _check_cycle returns and run sleeps until the next tick.
next_target(d) ==
    IF d.idx < Len(d.batch)
    THEN [d EXCEPT !.pc = "loop", !.idx = @ + 1]
    ELSE [idle_daemon EXCEPT !.cycle = d.cycle, !.cycle_errors = d.cycle_errors]

\* The except clause of the for loop: the error is logged and the loop goes
\* on with the next target.
target_error(d) == next_target(d)

\* Mutant: run without its try/except, the exception ends the task.
cycle_error_uncaught(d) ==
    [idle_daemon EXCEPT !.pc = "stopped", !.cycle = d.cycle + 1,
                        !.cycle_errors = d.cycle_errors + 1]

\* The except clause of run: "Check cycle error" is logged (cycle_errors
\* counts these lines) and run sleeps until the next tick.
cycle_error(d) ==
    [idle_daemon EXCEPT !.cycle = d.cycle + 1, !.cycle_errors = d.cycle_errors + 1]

\* A tick begins and get_active_targets raises (the database is locked or
\* unreadable): the exception escapes _check_cycle.
CycleRaised ==
    /\ daemon.pc = "sleep"
    /\ daemon.cycle < MaxCycles
    /\ daemon' = cycle_error(daemon)
    /\ UNCHANGED <<strategy, targets, nextTarget, sells, observed, ivars, qvars, wvars, svars, cvars, hvars, dvars>>

\* A tick begins: get_active_targets(); with no target _check_cycle returns,
\* else it asks for the prices.
CycleStart ==
    /\ daemon.pc = "sleep"
    /\ daemon.cycle < MaxCycles
    /\ LET batch == get_active_targets(targets)
       IN  daemon' = IF batch = <<>>
                     THEN [daemon EXCEPT !.cycle = @ + 1]
                     ELSE [daemon EXCEPT !.pc = "poll", !.cycle = @ + 1,
                                         !.batch = batch]
    /\ UNCHANGED <<strategy, targets, nextTarget, sells, observed, ivars, qvars, wvars, svars, cvars, hvars, dvars>>

\* poll_targets_batch returns: the price of the token (0 when the fetch
\* failed) and, when the batch holds an mcap target, its market cap or None.
PollPrices(price, mcap) ==
    /\ daemon.pc = "poll"
    /\ LET wanted == \E k \in 1..Len(daemon.batch) :
                        daemon.batch[k].target_type = "mcap"
       IN  daemon' = [daemon EXCEPT !.pc = "loop", !.idx = 1, !.price = price,
                                    !.mcap = IF wanted THEN mcap ELSE NoPrice]
    /\ observed' = [i \in TargetIds |->
                      IF price > 0 /\ \E k \in 1..Len(daemon.batch) :
                                         /\ daemon.batch[k].id = i
                                         /\ daemon.batch[k].target_type = "trailing_stop"
                      THEN observed[i] \cup {price} ELSE observed[i]]
    /\ UNCHANGED <<strategy, targets, nextTarget, sells, ivars, qvars, wvars, svars, cvars, hvars, dvars>>

\* One target of the batch up to the first suspension: skip it without a
\* price; for a trailing stop raise the stored peak and read the row again;
\* check_target; when met, mark_target_triggered and call execute_target_sell.
Evaluate ==
    /\ daemon.pc = "loop"
    /\ LET snapshot == daemon.batch[daemon.idx]
           trailing == snapshot.target_type = "trailing_stop"
           peaked   == IF trailing
                       THEN update_trailing_peak(targets, snapshot.id, daemon.price)
                       ELSE targets
           target   == IF trailing /\ snapshot.id \in DOMAIN peaked
                       THEN peaked[snapshot.id] ELSE snapshot
       IN  IF daemon.price <= 0
           THEN /\ daemon' = next_target(daemon)
                /\ UNCHANGED targets
           ELSE IF check_target(target, daemon.price, daemon.mcap)
           THEN /\ targets' = mark_target_triggered(peaked, target.id, daemon.price)
                /\ daemon' = [daemon EXCEPT !.pc = "sell", !.batch[daemon.idx] = target]
           ELSE /\ targets' = peaked
                /\ daemon' = next_target(daemon)
    /\ UNCHANGED <<strategy, nextTarget, sells, observed, ivars, qvars, wvars, svars, cvars, hvars, dvars>>

\* execute_target_sell runs to its end: the holdings, quick_trade with its
\* quote and confirm, the status update; an exception is caught and logged by
\* the loop, which goes on with the next target.
SellDone(wallet, price_ok, order, exec, recorded) ==
    /\ daemon.pc = "sell"
    /\ LET target == daemon.batch[daemon.idx]
           result == execute_target_sell(target, daemon.price, wallet, strategy,
                                         price_ok, policy_env, order, exec, nextIntent)
           quoted == result.kind \in QuotedKinds
       IN  /\ targets' = sell_status_update(targets, target, daemon.price, result)
           /\ intents' = sell_intents(intents, result, target.mint, nextIntent, now)
           /\ nextIntent' = IF quoted THEN nextIntent + 1 ELSE nextIntent
           /\ issued' = IF quoted
                        THEN [i \in DOMAIN issued \cup {nextIntent} |->
                                IF i = nextIntent THEN now + INTENT_TTL_SECONDS
                                ELSE issued[i]]
                        ELSE issued
           /\ trade_history' = sell_trades(trade_history, result, target.mint,
                                           nextIntent, recorded)
           /\ sells' = Append(sells, [id |-> target.id, result |-> result])
           /\ daemon' = IF result.raised THEN target_error(daemon)
                        ELSE next_target(daemon)
    /\ UNCHANGED <<now, markLog, confirm, strategy, nextTarget, observed, qvars, wvars, svars, cvars, hvars, dvars>>

----------------------------------------------------------------------------
(* daemon.py: the daemon process, its PID file, start_daemon and stop_daemon *)

\* read_pid's None: no PID file
NoPid == 0
DaemonPids == 1..MaxDaemons
CliCalls == 1..MaxCliCalls

\* A process that fork has not created yet.  `running` is
\* SlopeSniperDaemon.running; stop_set records that stop() was called and
\* late_cycle that a check cycle began after that.
unborn_daemon ==
    [pc |-> "unborn", running |-> FALSE, stop_set |-> FALSE, late_cycle |-> FALSE]

idle_cli == [op |-> "none", pc |-> "idle", pid |-> NoPid, result |-> "none"]

\* os.kill(pid, 0) does not raise: the process exists
alive(ps, pid) ==
    pid \in DaemonPids /\ ps[pid].pc \notin {"unborn", "exited", "killed"}

\* is_daemon_running(): its return value and the PID file it leaves, the
\* file being unlinked when its process does not exist
is_daemon_running(file, ps) == file # NoPid /\ alive(ps, file)

pid_file_after_check(file, ps) ==
    IF file # NoPid /\ ~alive(ps, file) THEN NoPid ELSE file

\* The daemon process between the handlers being installed and its exit
handles_sigterm(proc) ==
    proc.pc \in {"handlers", "loop", "cycle", "sleep", "finally"}

\* os.kill(pid, SIGTERM): handle_sigterm calls daemon.stop() once the
\* handlers are installed; before that the signal ends the process
sigterm(ps, pid) ==
    IF ~alive(ps, pid) THEN ps
    ELSE IF handles_sigterm(ps[pid])
    THEN [ps EXCEPT ![pid].running = FALSE, ![pid].stop_set = TRUE]
    ELSE [ps EXCEPT ![pid].pc = "killed"]

\* os.kill(pid, SIGKILL)
sigkill(ps, pid) ==
    IF alive(ps, pid) THEN [ps EXCEPT ![pid].pc = "killed"] ELSE ps

\* the PID that the second fork gives the daemon process
fresh_pid(ps) == CHOOSE p \in DaemonPids :
                    ps[p].pc = "unborn" /\ \A q \in 1..(p - 1) : ps[q].pc # "unborn"

\* start_daemon up to the parent's sleep: the liveness check, then both
\* forks; the daemon process exists from here on.
StartDaemon(c, fork_ok) ==
    /\ cli[c].pc = "idle"
    /\ IF is_daemon_running(pid_file, procs)
       THEN /\ cli' = [cli EXCEPT ![c] = [op |-> "start", pc |-> "done", pid |-> pid_file,
                                          result |-> "Daemon already running"]]
            /\ UNCHANGED <<pid_file, procs>>
       ELSE IF ~fork_ok
       THEN /\ cli' = [cli EXCEPT ![c] = [op |-> "start", pc |-> "done", pid |-> NoPid,
                                          result |-> "Fork failed"]]
            /\ pid_file' = pid_file_after_check(pid_file, procs)
            /\ UNCHANGED procs
       ELSE /\ \E p \in DaemonPids : procs[p].pc = "unborn"
            /\ procs' = [procs EXCEPT ![fresh_pid(procs)].pc = "forked"]
            /\ pid_file' = pid_file_after_check(pid_file, procs)
            /\ cli' = [cli EXCEPT ![c] = [op |-> "start", pc |-> "started", pid |-> NoPid,
                                          result |-> "none"]]
    /\ UNCHANGED <<ivars, qvars, tvars, wvars, svars, cvars, hvars>>

\* start_daemon after time.sleep(0.5): the parent reports what it finds
StartReport(c) ==
    /\ cli[c].pc = "started"
    /\ cli' = [cli EXCEPT ![c].pc = "done",
                          ![c].pid = IF is_daemon_running(pid_file, procs)
                                     THEN pid_file ELSE NoPid,
                          ![c].result = IF is_daemon_running(pid_file, procs)
                                        THEN "Daemon started"
                                        ELSE "Daemon failed to start, check logs"]
    /\ pid_file' = pid_file_after_check(pid_file, procs)
    /\ UNCHANGED <<procs, ivars, qvars, tvars, wvars, svars, cvars, hvars>>

\* The daemon process: write_pid()
DaemonWritePid(p) ==
    /\ procs[p].pc = "forked"
    /\ pid_file' = p
    /\ procs' = [procs EXCEPT ![p].pc = "pid_written"]
    /\ UNCHANGED <<cli, ivars, qvars, tvars, wvars, svars, cvars, hvars>>

\* daemon = SlopeSniperDaemon(...), whose running is False, and the two
\* signal.signal calls
DaemonInstallHandlers(p) ==
    /\ procs[p].pc = "pid_written"
    /\ procs' = [procs EXCEPT ![p].pc = "handlers", ![p].running = FALSE]
    /\ UNCHANGED <<pid_file, cli, ivars, qvars, tvars, wvars, svars, cvars, hvars>>

\* asyncio.run(daemon.run()) reaches `self.running = True`
DaemonRun(p) ==
    /\ procs[p].pc = "handlers"
    /\ procs' = [procs EXCEPT ![p].pc = "loop", ![p].running = TRUE]
    /\ UNCHANGED <<pid_file, cli, ivars, qvars, tvars, wvars, svars, cvars, hvars>>

\* `while self.running:` is evaluated: a check cycle begins or the loop ends
DaemonLoop(p) ==
    /\ procs[p].pc = "loop"
    /\ procs' = IF procs[p].running
                THEN [procs EXCEPT ![p].pc = "cycle",
                                   ![p].late_cycle = @ \/ procs[p].stop_set]
                ELSE [procs EXCEPT ![p].pc = "finally"]
    /\ UNCHANGED <<pid_file, cli, ivars, qvars, tvars, wvars, svars, cvars, hvars>>

\* _check_cycle is over, with or without an exception that was logged
DaemonCycle(p) ==
    /\ procs[p].pc = "cycle"
    /\ procs' = [procs EXCEPT ![p].pc = "sleep"]
    /\ UNCHANGED <<pid_file, cli, ivars, qvars, tvars, wvars, svars, cvars, hvars>>

\* asyncio.sleep(self.poll_interval) is over
DaemonSleep(p) ==
    /\ procs[p].pc = "sleep"
    /\ procs' = [procs EXCEPT ![p].pc = "loop"]
    /\ UNCHANGED <<pid_file, cli, ivars, qvars, tvars, wvars, svars, cvars, hvars>>

\* finally: PID_FILE.unlink(missing_ok=True); sys.exit(0)
DaemonExit(p) ==
    /\ procs[p].pc = "finally"
    /\ pid_file' = NoPid
    /\ procs' = [procs EXCEPT ![p].pc = "exited"]
    /\ UNCHANGED <<cli, ivars, qvars, tvars, wvars, svars, cvars, hvars>>

\* stop_daemon up to its first poll: read_pid, the liveness check, SIGTERM
StopDaemon(c) ==
    /\ cli[c].pc = "idle"
    /\ IF pid_file = NoPid
       THEN /\ cli' = [cli EXCEPT ![c] = [op |-> "stop", pc |-> "done", pid |-> NoPid,
                                          result |-> "No daemon running (no PID file)"]]
            /\ UNCHANGED <<pid_file, procs>>
       ELSE IF ~is_daemon_running(pid_file, procs)
       THEN /\ cli' = [cli EXCEPT ![c] = [op |-> "stop", pc |-> "done", pid |-> pid_file,
                          result |-> "Daemon not running (stale PID file cleaned up)"]]
            /\ pid_file' = NoPid
            /\ UNCHANGED procs
       ELSE /\ procs' = sigterm(procs, pid_file)
            /\ cli' = [cli EXCEPT ![c] = [op |-> "stop", pc |-> "signalled", pid |-> pid_file,
                                          result |-> "none"]]
            /\ UNCHANGED pid_file
    /\ UNCHANGED <<ivars, qvars, tvars, wvars, svars, cvars, hvars>>

\* One round of the wait loop: is_daemon_running() reads the PID file anew;
\* the call ends when no live daemon is recorded, else it sleeps 0.1 s.
StopPoll(c) ==
    /\ cli[c].pc \in {"signalled", "slept"}
    /\ IF is_daemon_running(pid_file, procs)
       THEN /\ cli' = [cli EXCEPT ![c].pc = "slept"]
            /\ UNCHANGED pid_file
       ELSE /\ cli' = [cli EXCEPT ![c].pc = "done", ![c].result = "Daemon stopped"]
            /\ pid_file' = NoPid
    /\ UNCHANGED <<procs, ivars, qvars, tvars, wvars, svars, cvars, hvars>>

\* The wait loop is used up, the last round having seen a live daemon:
\* os.kill(pid, SIGKILL) with the PID read at the start, or
\* ProcessLookupError when that process is gone; the PID file is unlinked.
StopForceKill(c) ==
    /\ cli[c].pc = "slept"
    /\ procs' = sigkill(procs, cli[c].pid)
    /\ pid_file' = NoPid
    /\ cli' = [cli EXCEPT ![c].pc = "done",
                          ![c].result = IF alive(procs, cli[c].pid)
                                        THEN "Daemon force stopped"
                                        ELSE "Daemon already stopped"]
    /\ UNCHANGED <<ivars, qvars, tvars, wvars, svars, cvars, hvars>>

----------------------------------------------------------------------------
(* config.py: get_policy_config reads the POLICY_* environment at each call *)

PolicyEnvs ==
    {default_policy_config,
     [default_policy_config EXCEPT !.DENY_MINTS = {WIF_MINT}],
     [default_policy_config EXCEPT !.ALLOW_MINTS = {USDC_MINT}],
     [default_policy_config EXCEPT !.REQUIRE_MINT_DISABLED = FALSE,
                                   !.REQUIRE_FREEZE_DISABLED = FALSE]}

\* The environment of the next call differs from that of the last one.
SetPolicyEnv(config) ==
    /\ policy_env # config
    /\ policy_env' = config
    /\ UNCHANGED <<quotes, policy_call, quick_op, ivars, tvars, wvars, svars, cvars, hvars, dvars>>

----------------------------------------------------------------------------
(* config.py: the wallet file, its backups and the machine key *)

MAX_WALLET_BACKUPS == 10

\* A file that does not exist
NoWalletFile == [exists |-> FALSE, value |-> 0, key |-> 0, mtime |-> 0]

\* wallet.enc or a copy of it: the wallet it holds (a wallet is named by a
\* positive number, its address), the machine key it was encrypted with and
\* its mtime.  No two writes of wallet.enc happen at the same mtime.
wallet_file(value, key, mtime) ==
    [exists |-> TRUE, value |-> value, key |-> key, mtime |-> mtime]

\* load_local_wallet's None
NoWallet == 0

\* load_local_wallet(): the wallet of wallet.enc when Fernet decrypts it with
\* the present machine key; None on InvalidToken and when there is no file
\* (no wallet.json exists to migrate: nothing in the program writes one).
load_local_wallet(file, key) ==
    IF file.exists /\ file.key = key THEN file.value ELSE NoWallet

\* The timestamps of the n backups with the highest mtime
most_recent(files, n) ==
    {t \in DOMAIN files :
        Cardinality({u \in DOMAIN files : files[u].mtime > files[t].mtime}) < n}

\* Mutant: sorted without reverse=True, the files after the first
\* MAX_WALLET_BACKUPS in ascending mtime are deleted.
cleanup_old_backups_ascending(files) ==
    DOMAIN files \ {t \in DOMAIN files :
        Cardinality({u \in DOMAIN files : files[u].mtime < files[t].mtime})
            < MAX_WALLET_BACKUPS}

\* _cleanup_old_backups: the timestamps of the backups it unlinks, those after
\* the first MAX_WALLET_BACKUPS in descending mtime.
cleanup_old_backups(files) == DOMAIN files \ most_recent(files, MAX_WALLET_BACKUPS)

\* _backup_existing_wallet with wallet.enc present and a copy that succeeds:
\* shutil.copy2 to wallet.enc.<timestamp> (contents and mtime, over a backup
\* of the same name if there is one), the .address sidecar when the wallet
\* loads, then _cleanup_old_backups with the sidecars of the deleted files.
backup_existing_wallet(file, files, addresses, key, timestamp) ==
    LET copied  == [t \in DOMAIN files \cup {timestamp} |->
                      IF t = timestamp THEN file ELSE files[t]]
        wallet  == load_local_wallet(file, key)
        written == IF wallet # NoWallet
                   THEN [t \in DOMAIN addresses \cup {timestamp} |->
                           IF t = timestamp THEN wallet ELSE addresses[t]]
                   ELSE addresses
        old     == cleanup_old_backups(copied)
    IN  [backups  |-> [t \in DOMAIN copied \ old |-> copied[t]],
         sidecars |-> [t \in DOMAIN written \ old |-> written[t]],
         deleted  |-> {copied[t].value : t \in old}]

\* save_wallet(private_key, address): the backup of the present wallet.enc,
\* then the new wallet encrypted with the present machine key is written.
\* When the copy raises, save_wallet ends there and nothing is written.
SaveWalletStep(value, copy_ok, op) ==
    IF wallet_enc.exists /\ ~copy_ok
    THEN /\ wallet_op' = [op |-> op, outcome |-> "copy failed"]
         /\ UNCHANGED <<wallet_enc, backups, sidecars, wallet_writes, overwritten,
                        evicted>>
    ELSE LET backup == IF wallet_enc.exists
                       THEN backup_existing_wallet(wallet_enc, backups, sidecars,
                                                   machine_key, wallet_clock)
                       ELSE [backups |-> backups, sidecars |-> sidecars,
                             deleted |-> {}]
         IN  /\ backups' = backup.backups
             /\ sidecars' = backup.sidecars
             /\ evicted' = evicted \cup backup.deleted
             /\ overwritten' = IF wallet_enc.exists
                               THEN overwritten \cup {wallet_enc.value}
                               ELSE overwritten
             /\ wallet_enc' = wallet_file(value, machine_key, wallet_writes + 1)
             /\ wallet_writes' = wallet_writes + 1
             /\ wallet_op' = [op |-> op, outcome |-> "saved"]

\* generate_wallet() or a key the user imports: a wallet not seen before.  As
\* each write stores a new wallet, the count of writes names it.
new_wallet == wallet_writes + 1

\* The saves so far that fell in the second of the save before them, so that
\* their backup took the name of an existing one: the copies made less the
\* timestamps used.  (The clock of the model skips the seconds without a
\* backup, so the timestamps used are 1..wallet_clock or 1..wallet_clock - 1.)
same_second_saves ==
    Cardinality(overwritten)
        - (IF wallet_clock \in DOMAIN backups THEN wallet_clock ELSE wallet_clock - 1)

\* The calls of the model: at most MaxSaves writes, of which at most
\* MaxCollisions in the second of the write before.
may_call ==
    /\ wallet_writes < MaxSaves
    /\ wallet_clock \in DOMAIN backups => same_second_saves < MaxCollisions

\* create_wallet_explicit, and setup_wallet with a private key to import
SaveWallet(copy_ok) ==
    /\ may_call
    /\ SaveWalletStep(new_wallet, copy_ok, "save_wallet")
    /\ UNCHANGED <<machine_key, wallet_clock, ivars, qvars, tvars, svars, cvars, hvars, dvars>>

\* get_or_create_wallet: SOLANA_PRIVATE_KEY when set, else the local wallet
\* when load_local_wallet returns one, else a generated wallet is saved.
GetOrCreateWallet(env_key, copy_ok) ==
    /\ may_call
    /\ LET local_wallet == load_local_wallet(wallet_enc, machine_key)
       IN  IF env_key \/ local_wallet # NoWallet
           THEN /\ wallet_op' = [op |-> "get_or_create_wallet",
                                 outcome |-> IF env_key THEN "env" ELSE "local"]
                /\ UNCHANGED <<wallet_enc, backups, sidecars, wallet_writes,
                               overwritten, evicted>>
           ELSE SaveWalletStep(new_wallet, copy_ok, "get_or_create_wallet")
    /\ UNCHANGED <<machine_key, wallet_clock, ivars, qvars, tvars, svars, cvars, hvars, dvars>>

\* SOLANA_PRIVATE_KEY: unset; set to a string _parse_private_key rejects; set
\* to the key of a wallet (one the file may hold, or one it never holds).
NoEnvKey == [set |-> FALSE, valid |-> FALSE, address |-> NoWallet]
InvalidEnvKey == [set |-> TRUE, valid |-> FALSE, address |-> NoWallet]
EnvKey(address) == [set |-> TRUE, valid |-> TRUE, address |-> address]
EnvKeys == {NoEnvKey, InvalidEnvKey, EnvKey(1), EnvKey(MaxSaves + 2)}

\* get_keypair's ValueError("Invalid SOLANA_PRIVATE_KEY format")
InvalidKeyFormat == -1

\* get_wallet_address over get_keypair: the environment key first (a key that
\* does not parse raises), then the local wallet, else None.
get_wallet_address(env, file, key) ==
    IF env.set
    THEN IF env.valid THEN env.address ELSE InvalidKeyFormat
    ELSE load_local_wallet(file, key)

\* Mutant: the active source is chosen with the local wallet first.
get_wallet_sync_status_local_first(env, file, key) ==
    LET env_configured   == env.set /\ env.valid
        local_wallet     == load_local_wallet(file, key)
        local_configured == local_wallet # NoWallet
        mismatch         == env_configured /\ local_configured
                               /\ env.address # local_wallet
    IN  [active_source    |-> IF local_configured THEN "local"
                              ELSE IF env_configured THEN "environment"
                              ELSE "none",
         active_address   |-> IF local_configured THEN local_wallet
                              ELSE IF env_configured THEN env.address
                              ELSE NoWallet,
         env_configured   |-> env_configured,
         env_address      |-> IF env_configured THEN env.address ELSE NoWallet,
         local_configured |-> local_configured,
         local_address    |-> local_wallet,
         is_synced        |-> ~mismatch,
         warning          |-> IF mismatch THEN "WALLET MISMATCH" ELSE None]

\* get_wallet_sync_status(): the dict it returns
get_wallet_sync_status(env, file, key) ==
    LET env_configured   == env.set /\ env.valid
        local_wallet     == load_local_wallet(file, key)
        local_configured == local_wallet # NoWallet
        mismatch         == env_configured /\ local_configured
                               /\ env.address # local_wallet
    IN  [active_source    |-> IF env_configured THEN "environment"
                              ELSE IF local_configured THEN "local"
                              ELSE "none",
         active_address   |-> IF env_configured THEN env.address
                              ELSE IF local_configured THEN local_wallet
                              ELSE NoWallet,
         env_configured   |-> env_configured,
         env_address      |-> IF env_configured THEN env.address ELSE NoWallet,
         local_configured |-> local_configured,
         local_address    |-> local_wallet,
         is_synced        |-> ~mismatch,
         warning          |-> IF mismatch THEN "WALLET MISMATCH" ELSE None]

\* A get_wallet_sync_status call under an environment; the call and what it
\* returned are kept in wallet_op.  The function writes no file.
GetWalletSyncStatus(env) ==
    /\ wallet_op' = [op |-> "get_wallet_sync_status", outcome |-> "returned",
                     env |-> env,
                     result |-> get_wallet_sync_status(env, wallet_enc, machine_key)]
    /\ UNCHANGED <<wallet_enc, backups, sidecars, machine_key, wallet_clock,
                   wallet_writes, overwritten, evicted, ivars, qvars, tvars, svars, cvars, hvars, dvars>>

\* The machine key changes: .machine_key is lost or unreadable and a new salt
\* is generated, or the machine fingerprint differs (another host name, the
\* directory moved to another machine).
MachineKeyChange ==
    /\ machine_key < MaxKeys
    /\ machine_key' = machine_key + 1
    /\ UNCHANGED <<wallet_enc, backups, sidecars, wallet_clock, wallet_writes,
                   wallet_op, overwritten, evicted, ivars, qvars, tvars, svars, cvars, hvars, dvars>>

\* The clock reaches the next second in which a wallet call is made: the
\* next backup gets another timestamp.
WalletTick ==
    /\ wallet_clock < MaxSeconds
    /\ wallet_clock \in DOMAIN backups
    /\ wallet_clock' = wallet_clock + 1
    /\ UNCHANGED <<wallet_enc, backups, sidecars, machine_key, wallet_writes,
                   wallet_op, overwritten, evicted, ivars, qvars, tvars, svars, cvars, hvars, dvars>>

----------------------------------------------------------------------------
(* Initial state and inputs *)

Init ==
    /\ now = 0
    /\ intents = <<>>
    /\ nextIntent = 1
    /\ issued = <<>>
    /\ markLog = [i \in IntentIds |-> <<>>]
    /\ confirm = [c \in Calls |-> idle_call]
    /\ trade_history = <<>>
    /\ policy_env = default_policy_config
    /\ quotes = [q \in QuoteIds |-> idle_quote]
    /\ policy_call = NoPolicyCall
    /\ quick_op = NoQuickTrade
    /\ strategy = STRATEGY_PRESETS[DEFAULT_STRATEGY]
    /\ targets = <<>>
    /\ nextTarget = 1
    /\ daemon = idle_daemon
    /\ sells = <<>>
    /\ observed = [i \in TargetIds |-> {}]
    /\ wallet_enc = NoWalletFile
    /\ backups = <<>>
    /\ sidecars = <<>>
    /\ machine_key = 1
    /\ wallet_clock = 1
    /\ wallet_writes = 0
    /\ wallet_op = [op |-> "none", outcome |-> "none"]
    /\ overwritten = {}
    /\ evicted = {}
    /\ strategies = <<>>
    /\ pnl_snapshots = <<>>
    /\ pnl_op = [op |-> "none", call |-> 0, result |-> None]
    /\ user_config = NoConfigFile
    /\ config_op = [op |-> "none", provider |-> None, value |-> None, success |-> FALSE, error |-> None]
    /\ http = idle_request
    /\ pid_file = NoPid
    /\ procs = [p \in DaemonPids |-> unborn_daemon]
    /\ cli = [c \in CliCalls |-> idle_cli]

\* The arguments of the direct check_policy calls: a known safe mint and an
\* unknown one on each side; amounts and slippages at and above the limits;
\* no report, the report of a failed fetch, reports without a score,
\* at and above the score limit, with an authority set; configs with deny
\* and allow lists over known safe and unknown mints.
PolicyMints == {SOL_MINT, WIF_MINT}
PolicyAmounts == {50, 51}
PolicySlippages == {100, 101}
CleanSummary == [mintAuthority |-> None, freezeAuthority |-> None]
PolicyRugResults ==
    {NoRugcheck,
     [score |-> NoScore, summary |-> NoSummary],
     [score |-> NoScore, summary |-> CleanSummary],
     [score |-> 2000, summary |-> CleanSummary],
     [score |-> 2001, summary |-> CleanSummary],
     [score |-> 100, summary |-> [mintAuthority |-> "auth", freezeAuthority |-> None]],
     [score |-> 100, summary |-> [mintAuthority |-> None, freezeAuthority |-> "auth"]]}
PolicyConfigs ==
    PolicyEnvs \cup
    {[default_policy_config EXCEPT !.DENY_MINTS = {SOL_MINT}],
     [default_policy_config EXCEPT !.DENY_MINTS = {WIF_MINT}, !.ALLOW_MINTS = {WIF_MINT}],
     [default_policy_config EXCEPT !.ALLOW_MINTS = {WIF_MINT}]}

\* The orders the aggregator answers with: an exception; an errorCode, also
\* next to a transaction; no transaction or an empty one; one of two
\* transactions with its request id; a transaction without request id.
Orders ==
    {OrderRaised, Order("E1", None, None), Order("E1", "txA", "reqA"),
     Order(None, None, "reqA"), Order(None, "", "reqA"),
     Order(None, "txA", "reqA"), Order(None, "txB", "reqB"), Order(None, "txA", None)}

MintPairs == {<<SOL_MINT, WIF_MINT>>, <<WIF_MINT, SOL_MINT>>}

\* rugcheck.check_token: the fetch failed; a clean report; a score above the
\* limit; a mint authority still set.
RugResults ==
    {[score |-> NoScore, summary |-> NoSummary],
     [score |-> 100,  summary |-> [mintAuthority |-> None, freezeAuthority |-> None]],
     [score |-> 2001, summary |-> [mintAuthority |-> None, freezeAuthority |-> None]],
     [score |-> 100,  summary |-> [mintAuthority |-> "auth", freezeAuthority |-> None]]}

QuoteAmounts == {2}
QuotePrices == {0, 25, 26}
QuoteSlippages == {100, 101}

\* The answers to one POST /execute: the body, and with it the status, is
\* read on a 200 only.
ExecAnswers ==
    {a \in HttpOutcomes \X ExecStatuses : a[1] # "http200" => a[2] = "Failed"}

PresetNames == {"conservative", "balanced", "aggressive", "degen"}

\* The arguments of set_strategy in the model: a preset name or None; each
\* override None or a value below or above what the presets hold.
StrategyArgs == PresetNames \cup {None}
MaxTradeOverrides == {NoOverride, Override(5)}
AutoExecuteOverrides == {NoOverride, Override(20), Override(2000)}
SlippageOverrides == {NoOverride, Override(300)}
RugcheckOverrides == {NoFlag, Flag(FALSE)}

TargetPrices == {0, 2, 4}
TargetMcaps == {NoPrice, 1000}
Wallets == {WalletRaised, NoHoldings, Holdings(10, 20)}

\* What the outside world answers during one execute_target_sell: the
\* holdings, whether the token has a price, the order, the execution, and
\* whether record_trade went through.  An answer is left at its first value
\* when the call ends before asking for it.
SellEnvs ==
    {e \in [wallet : Wallets, price_ok : BOOLEAN, order : OrderOutcomes,
            exec : SellExecOutcomes, recorded : BOOLEAN] :
        /\ (e.wallet.kind # "held" => e.price_ok)
        /\ (~(e.wallet.kind = "held" /\ e.price_ok) => e.order = "transaction")
        /\ (e.order # "transaction" => e.exec = "Success")
        /\ (e.exec # "Success" => e.recorded)}

----------------------------------------------------------------------------
(* Specifications *)

\* The intent store called directly
NextStore ==
    \/ Tick
    \/ \E p \in MintPairs : CreateIntent(p[1], p[2])
    \/ \E id \in IntentIds : GetIntent(id)
    \/ \E id \in IntentIds : MarkExecuted(id)

SpecStore == Init /\ [][NextStore]_vars

\* Intents and concurrent solana_swap_confirm calls
NextConfirm ==
    \/ Tick
    \/ \E p \in MintPairs : CreateIntent(p[1], p[2])
    \/ \E c \in Calls, id \in IntentIds, kp \in BOOLEAN : ConfirmStart(c, id, kp)
    \/ \E c \in Calls, a \in ExecAnswers : ExecuteAttempt(c, a[1], a[2])
    \/ \E c \in Calls, r \in BOOLEAN : RecordTrade(c, r)

SpecConfirm == Init /\ [][NextConfirm]_vars

\* solana_quote calls under each policy environment
NextQuote ==
    \/ \E config \in PolicyEnvs : SetPolicyEnv(config)
    \/ \E q \in QuoteIds, f \in QuoteMints, t \in QuoteMints, a \in QuoteAmounts,
          p \in QuotePrices, s \in QuoteSlippages, kp \in BOOLEAN, rug \in RugResults :
          QuoteStart(q, f, t, a, p, s, kp, rug)
    \/ \E q \in QuoteIds, order \in Orders : QuoteOrder(q, order)

SpecQuote == Init /\ [][NextQuote]_vars

\* solana_quote calls under each policy environment and each active strategy
NextQuoteStrategy ==
    \/ \E preset \in PresetNames : SetStrategy(preset)
    \/ \E config \in PolicyEnvs : SetPolicyEnv(config)
    \/ \E q \in QuoteIds, f \in QuoteMints, t \in QuoteMints, a \in QuoteAmounts,
          p \in QuotePrices, s \in QuoteSlippages, kp \in BOOLEAN, rug \in RugResults :
          QuoteStart(q, f, t, a, p, s, kp, rug)
    \/ \E q \in QuoteIds, order \in Orders : QuoteOrder(q, order)

SpecQuoteStrategy == Init /\ [][NextQuoteStrategy]_vars

\* check_policy called directly
NextPolicy ==
    \/ \E f \in PolicyMints, t \in PolicyMints, a \in PolicyAmounts, s \in PolicySlippages, rug \in PolicyRugResults, config \in PolicyConfigs : CheckPolicy(f, t, a, s, rug, config)

SpecPolicy == Init /\ [][NextPolicy]_vars

\* The user-config calls
NextConfig ==
    \/ \E provider \in RpcProviderArgs, value \in RpcValues : SetRpcConfig(provider, value)
    \/ ClearRpcConfig
    \/ \E api_key \in JupiterApiKeys : SetJupiterApiKey(api_key)

SpecConfig == Init /\ [][NextConfig]_vars

\* One _make_request call of either client against every sequence of answers
NextHttp ==
    \/ \E client \in Clients : MakeRequestStart(client)
    \/ \E outcome \in HttpOutcomes : MakeRequestAttempt(outcome)
    \/ MakeRequestBackoff

SpecHttp == Init /\ [][NextHttp]_vars

\* The same where every request ends (aiohttp.ClientTimeout bounds it) and
\* every asyncio.sleep is over after its delay
SpecHttpFair ==
    /\ SpecHttp
    /\ WF_vars(\E outcome \in HttpOutcomes : MakeRequestAttempt(outcome))
    /\ WF_vars(MakeRequestBackoff)

\* Trades of one token being recorded within one second, sells among the
\* first rows only, and the token's PnL being asked for in between
NextTokenPnl ==
    \/ RecordTradeMany("buy", BONK_MINT, 10, 20)
    \/ Len(trade_history) < 2 /\ RecordTradeMany("sell", BONK_MINT, 5, 15)
    \/ \E mint \in {BONK_MINT, WIF_MINT} : CalculatePnlForToken(mint, 3)

SpecTokenPnl == Init /\ [][NextTokenPnl]_vars

\* start_daemon and stop_daemon calls in any interleaving with each other
\* and with the daemon processes they create
NextDaemon ==
    \/ \E c \in CliCalls, fork_ok \in BOOLEAN : StartDaemon(c, fork_ok)
    \/ \E c \in CliCalls : StartReport(c)
    \/ \E c \in CliCalls : StopDaemon(c)
    \/ \E c \in CliCalls : StopPoll(c)
    \/ \E c \in CliCalls : StopForceKill(c)
    \/ \E p \in DaemonPids : DaemonWritePid(p)
    \/ \E p \in DaemonPids : DaemonInstallHandlers(p)
    \/ \E p \in DaemonPids : DaemonRun(p)
    \/ \E p \in DaemonPids : DaemonLoop(p)
    \/ \E p \in DaemonPids : DaemonCycle(p)
    \/ \E p \in DaemonPids : DaemonSleep(p)
    \/ \E p \in DaemonPids : DaemonExit(p)

SpecDaemon == Init /\ [][NextDaemon]_vars

\* The PnL baseline calls, trades being recorded and the clock in between
StartingValues == {100, 200}
WalletValues == {WalletError, [sol_balance |-> 1, sol_value_usd |-> 150, token_value_usd |-> 30]}
CurrentTotals == {80}
TradeActions == {"buy", "sell"}

NextBaseline ==
    \/ Tick
    \/ \E starting_value \in StartingValues : PnlInit(starting_value)
    \/ \E wallet \in WalletValues : PnlInitFromWallet(wallet)
    \/ \E current_total \in CurrentTotals : PnlWithBaseline(current_total)
    \/ PnlReset
    \/ \E action \in TradeActions : RecordTradeCall(action, BONK_MINT, 10, 20)

SpecBaseline == Init /\ [][NextBaseline]_vars

\* quick_trade under each preset, and solana_swap_confirm calls on the
\* intents it leaves
QuickAmounts == {20, 30, 60}
QuickMints == {BONK_MINT, WIF_MINT}
QuickRugResults ==
    {[score |-> NoScore, summary |-> NoSummary],
     [score |-> 100,  summary |-> [mintAuthority |-> None, freezeAuthority |-> None]]}
QuickOrders == {"transaction", "errorCode"}

NextQuickTrade ==
    \/ \E preset \in PresetNames : SetStrategy(preset)
    \/ \E action \in TradeActions, mint \in QuickMints, amount_usd \in QuickAmounts, price_ok \in BOOLEAN, rug \in QuickRugResults, order \in QuickOrders, exec \in SellExecOutcomes, recorded \in BOOLEAN : QuickTrade(action, mint, amount_usd, price_ok, rug, order, exec, recorded)
    \/ \E c \in Calls, id \in IntentIds, kp \in BOOLEAN : ConfirmStart(c, id, kp)
    \/ \E c \in Calls, a \in ExecAnswers : ExecuteAttempt(c, a[1], a[2])
    \/ \E c \in Calls, r \in BOOLEAN : RecordTrade(c, r)

SpecQuickTrade == Init /\ [][NextQuickTrade]_vars

\* solana_quote calls that pass the policy, every answer to their order
\* request, and solana_swap_confirm calls on the intents they create
NextBinding ==
    \/ Tick
    \/ \E q \in QuoteIds, p \in MintPairs, kp \in BOOLEAN, rug \in QuickRugResults : QuoteStart(q, p[1], p[2], 1, 1, 100, kp, rug)
    \/ \E q \in QuoteIds, order \in Orders : QuoteOrder(q, order)
    \/ \E c \in Calls, id \in IntentIds, kp \in BOOLEAN : ConfirmStart(c, id, kp)
    \/ \E c \in Calls, a \in ExecAnswers : ExecuteAttempt(c, a[1], a[2])
    \/ \E c \in Calls, r \in BOOLEAN : RecordTrade(c, r)

SpecBinding == Init /\ [][NextBinding]_vars

\* The daemon, the users of the targets table and the strategy
NextTargets ==
    \/ \E preset \in PresetNames : SetStrategy(preset)
    \/ \E tpl \in TargetTemplates : AddTarget(tpl)
    \/ \E id \in TargetIds : RemoveTarget(id)
    \/ \E id \in TargetIds : DeleteTarget(id)
    \/ CycleStart
    \/ CycleRaised
    \/ \E price \in TargetPrices, mcap \in TargetMcaps : PollPrices(price, mcap)
    \/ Evaluate
    \/ \E e \in SellEnvs : SellDone(e.wallet, e.price_ok, e.order, e.exec, e.recorded)

SpecTargets == Init /\ [][NextTargets]_vars

\* The wallet file: its users, the machine key and the clock
NextWallet ==
    \/ \E copy_ok \in BOOLEAN : SaveWallet(copy_ok)
    \/ \E env_key \in BOOLEAN, copy_ok \in BOOLEAN : GetOrCreateWallet(env_key, copy_ok)
    \/ \E env \in EnvKeys : GetWalletSyncStatus(env)
    \/ MachineKeyChange
    \/ WalletTick

SpecWallet == Init /\ [][NextWallet]_vars

\* set_strategy calls on the strategies table
NextStrategy ==
    \/ \E preset \in StrategyArgs, m \in MaxTradeOverrides, a \in AutoExecuteOverrides, s \in SlippageOverrides, r \in RugcheckOverrides : SetStrategyCall(preset, m, a, s, r)

SpecStrategy == Init /\ [][NextStrategy]_vars

----------------------------------------------------------------------------
(* Claims about the intent store (SpecStore) *)

\* The returns of mark_executed(id), in call order: a call that finds no row
\* returns False; of the calls that find the row, the first returns True and
\* every later one False.
MarkReturnsTrueThenFalse ==
    \A id \in IntentIds : \A k \in 1..Len(markLog[id]) :
        LET e == markLog[id][k]
        IN  IF e.stored
            THEN e.ret <=> (\A j \in 1..(k - 1) : ~markLog[id][j].stored)
            ELSE ~e.ret

\* No step clears the executed flag of a row that stays in the store.
ExecutedNeverReset ==
    [][\A id \in DOMAIN intents :
          (intents[id].executed /\ id \in DOMAIN intents')
              => intents'[id].executed]_vars

WasMarked(id) == \E k \in 1..Len(markLog[id]) : markLog[id][k].ret

GetIntentReportsExecuted(id) ==
    /\ get_intent(intents, id, now) # NoIntent
    /\ get_intent(intents, id, now).executed

\* C4 as stated: the first mark_executed(id) of a stored id returns True and
\* every later one False, an id not in the store gives False, and once the
\* flag is set get_intent(id) reports executed = True, at any later time.
C4_MarkedIntentAlwaysReported ==
    /\ MarkReturnsTrueThenFalse
    /\ \A id \in IntentIds : WasMarked(id) => GetIntentReportsExecuted(id)

\* C4, amended: the first mark_executed(id) of a stored id returns True and
\* every later one False; an id not in the store gives False; no step resets
\* the executed flag; and get_intent(id) reports executed = True for as long
\* as the intent has not expired (from expires_at on it returns None).
C4_MarkExecutedOnce ==
    /\ []MarkReturnsTrueThenFalse
    /\ ExecutedNeverReset
    /\ [](\A id \in IntentIds :
            (WasMarked(id) /\ now < issued[id]) => GetIntentReportsExecuted(id))

\* mark_executed(id) was called twice on a stored row: True, then False.
C4_Witness ==
    \E id \in IntentIds :
        /\ Len(markLog[id]) >= 2
        /\ markLog[id][1].stored /\ markLog[id][1].ret
        /\ markLog[id][2].stored /\ ~markLog[id][2].ret
        /\ GetIntentReportsExecuted(id)

\* C7: get_intent(id) returns the intent at every time strictly before its
\* expires_at (creation + 120 s) and None at every time after it, whether or
\* not cleanup_expired has deleted the row yet.
C7_GetIntentUntilExpiry ==
    \A id \in DOMAIN issued :
        /\ now < issued[id] =>
              /\ get_intent(intents, id, now) # NoIntent
              /\ get_intent(intents, id, now).expires_at = issued[id]
              /\ issued[id] = get_intent(intents, id, now).created_at + 120
        /\ now > issued[id] => get_intent(intents, id, now) = NoIntent

\* An intent past its expires_at whose row cleanup has not deleted yet.
C7_Witness ==
    \E id \in DOMAIN issued :
        /\ now > issued[id]
        /\ id \in DOMAIN intents
        /\ get_intent(intents, id, now) = NoIntent

----------------------------------------------------------------------------
(* Claims about solana_swap_confirm (SpecConfirm) *)

\* The call got past the early returns: it signed and called execute_swap.
ReachedExecute(c) ==
    \/ confirm[c].pc \in {"execute", "record"}
    \/ confirm[c].result \in {"success", "swap_failed", "raised"}

\* C1: of two solana_swap_confirm calls for the same intent, in any
\* interleaving, only one reaches the aggregator execute request (no call
\* having raised).
C1_OneConfirmReachesExecute ==
    \A c1, c2 \in Calls :
        (/\ c1 # c2
         /\ confirm[c1].intent_id = confirm[c2].intent_id
         /\ confirm[c1].result # "raised" /\ confirm[c2].result # "raised"
         /\ ReachedExecute(c1))
            => ~ReachedExecute(c2)

\* C2: a solana_swap_confirm(i) that starts when intent i is marked executed
\* and not yet expired returns "already executed" at once: it never signs
\* and never calls execute.
C2_ExecutedIntentRefused ==
    [][\A c \in Calls :
          (/\ confirm[c].pc = "idle"
           /\ confirm'[c].pc # "idle"
           /\ confirm'[c].intent_id \in DOMAIN intents
           /\ intents[confirm'[c].intent_id].executed
           /\ now < intents[confirm'[c].intent_id].expires_at)
              => /\ confirm'[c].pc = "done"
                 /\ confirm'[c].result = "already_executed"]_vars

\* One call executed the intent and a later one was refused.
C2_Witness ==
    \E c1, c2 \in Calls :
        /\ confirm[c1].result \in {"success", "swap_failed"}
        /\ confirm[c2].result = "already_executed"
        /\ confirm[c2].intent_id = confirm[c1].intent_id

\* C3: a solana_swap_confirm that submitted the signed transaction leaves the
\* intent marked executed when it ends, whatever the outcome of execute.
C3_SubmittedIntentMarked ==
    \A c \in Calls :
        (/\ confirm[c].pc \in {"done", "raised"}
         /\ ReachedExecute(c)
         /\ confirm[c].intent_id \in DOMAIN intents)
            => intents[confirm[c].intent_id].executed

RowsWithSignature(sig) ==
    {k \in 1..Len(trade_history) : trade_history[k].signature = sig}

\* C5: after a confirm that ended with status Success exactly one
\* trade_history row carries its signature; an execution that did not report
\* Success has none.
C5_SuccessHasOneTradeRow ==
    /\ \A c \in Calls :
          (confirm[c].pc = "done" /\ confirm[c].status = "Success")
              => Cardinality(RowsWithSignature(confirm[c].intent_id)) = 1
    /\ \A k \in 1..Len(trade_history) :
          \E c \in Calls : /\ confirm[c].intent_id = trade_history[k].signature
                           /\ confirm[c].status = "Success"

\* C8: the execute request of a confirm is sent at most once: a call whose
\* POST /execute already went out and failed takes no step that sends it again.
C8_ExecuteNeverResent ==
    [][\A c \in Calls :
          (confirm[c].pc = "execute" /\ confirm[c].attempt >= 1)
              => confirm'[c] = confirm[c]]_vars

----------------------------------------------------------------------------
(* Claims about solana_quote (SpecQuote) *)

\* The policy check of the call ran and disallowed the quote.
PolicyDisallowed(q) ==
    /\ quotes[q].policy # NoPolicy
    /\ ~quotes[q].policy.raised
    /\ ~quotes[q].policy.allowed

\* C6: when check_policy disallows a quote, solana_quote returns "Policy
\* blocked" with the failed tags, never asks the aggregator for an order and
\* creates no intent; so every stored intent belongs to a quote whose policy
\* check allowed it.
C6_BlockedQuoteCreatesNoIntent ==
    /\ \A q \in QuoteIds :
          PolicyDisallowed(q) =>
             /\ quotes[q].pc = "done"
             /\ quotes[q].result = "Policy blocked"
             /\ quotes[q].policy.checks_failed # <<>>
             /\ quotes[q].intent_id = 0
    /\ \A id \in DOMAIN intents :
          \E q \in QuoteIds : /\ quotes[q].intent_id = id
                              /\ quotes[q].policy # NoPolicy
                              /\ quotes[q].policy.allowed

\* A quote above the trade size limit was blocked and no intent exists.
C6_Witness ==
    \E q \in QuoteIds :
        /\ PolicyDisallowed(q)
        /\ quotes[q].result = "Policy blocked"
        /\ \E k \in 1..Len(quotes[q].policy.checks_failed) :
              quotes[q].policy.checks_failed[k] = "trade_size"
        /\ intents = <<>>

\* C24: a solana_quote call that reaches the policy check with a USD notional
\* above max_trade_usd of the active strategy returns "Policy blocked" with a
\* trade_size tag among the failed checks, and goes on to no order.
C24_QuoteAboveStrategyMaxBlocked ==
    [][\A q \in QuoteIds :
          (/\ quotes[q].pc = "idle"
           /\ quotes'[q].pc # "idle"
           /\ quotes'[q].policy # NoPolicy
           /\ quotes'[q].amount_usd > strategy.max_trade_usd)
          => /\ quotes'[q].pc = "done"
             /\ quotes'[q].result = "Policy blocked"
             /\ \E k \in 1..Len(quotes'[q].policy.checks_failed) :
                   quotes'[q].policy.checks_failed[k] = "trade_size"]_vars

----------------------------------------------------------------------------
(* Claims about the targets and the daemon (SpecTargets) *)

SellSucceeded(id) ==
    \E k \in 1..Len(sells) : sells[k].id = id /\ sells[k].result.success

SellFailed(id) ==
    \E k \in 1..Len(sells) : sells[k].id = id /\ ~sells[k].result.success

\* C9: a target has status executed only after a sell of it succeeded (its
\* swap result has success = true); a sell that failed, was rejected or was
\* only quoted leaves the status triggered.
C9_ExecutedOnlyAfterSuccess ==
    \A id \in DOMAIN targets :
        targets[id].status = "executed" => SellSucceeded(id)

\* C10: a target whose sell failed after its condition was met stays
\* triggered and the sell is attempted again on the next tick: every tick
\* that begins takes each such target into the batch it processes.
C10_FailedSellRetriedNextTick ==
    [][\A id \in DOMAIN targets :
          (/\ daemon.pc = "sleep"
           /\ daemon'.cycle = daemon.cycle + 1
           /\ targets[id].status = "triggered"
           /\ SellFailed(id))
              => \E k \in 1..Len(daemon'.batch) : daemon'.batch[k].id = id]_vars

\* The target was cancelled while pending: it is cancelled and no
\* mark_target_triggered has set its trigger_price.
CancelledWhilePending(id) ==
    /\ targets[id].status = "cancelled"
    /\ targets[id].trigger_price = NoPrice

\* C11: a target the user cancelled while it was pending stays cancelled:
\* whatever a daemon tick that was processing it writes afterwards, its
\* status never becomes triggered or executed.
C11_CancelledStaysCancelled ==
    [][\A id \in DOMAIN targets :
          (CancelledWhilePending(id) /\ id \in DOMAIN targets')
              => targets'[id].status \notin {"triggered", "executed"}]_vars

\* The outside world at its most favourable: the wallet holds the token, the
\* token has a price, the order carries a transaction and the aggregator
\* executes it with status Success.
SuccessEnv ==
    [wallet |-> Holdings(10, 20), price_ok |-> TRUE, order |-> "transaction",
     exec |-> "Success", recorded |-> TRUE]

\* The targets table after execute_target_sell of the target under sale,
\* were the outside world to answer as in SuccessEnv.
RowsAfterSuccessfulSell ==
    LET target == daemon.batch[daemon.idx]
        result == execute_target_sell(target, daemon.price, SuccessEnv.wallet,
                                      strategy, SuccessEnv.price_ok, policy_env,
                                      SuccessEnv.order, SuccessEnv.exec, nextIntent)
    IN  sell_status_update(targets, target, daemon.price, result)

\* C12: when a pending target's condition is met on a tick, the wallet holds
\* the token and the aggregator sell returns Success with signature S, the
\* target ends executed with execution_signature = S, for every sell_amount
\* form ('all', 'N%', 'USD:X') and every active strategy.
C12_SuccessfulSellMarksExecuted ==
    (daemon.pc = "sell" /\ daemon.batch[daemon.idx].id \in DOMAIN targets) =>
        LET id == daemon.batch[daemon.idx].id
        IN  /\ RowsAfterSuccessfulSell[id].status = "executed"
            /\ RowsAfterSuccessfulSell[id].execution_signature = signature_of(nextIntent)

\* C13: cancellation only moves a target from pending to cancelled: no step
\* turns a triggered or executed target into a cancelled one, and no step
\* changes the status of an executed target.
C13_CancelOnlyFromPending ==
    [][\A id \in DOMAIN targets \cap DOMAIN targets' :
          /\ (targets'[id].status = "cancelled")
                => targets[id].status \in {"pending", "cancelled"}
          /\ (targets[id].status = "executed")
                => targets'[id].status = "executed"]_vars

\* C14: every target with status executed has a non-null, non-empty
\* execution_signature, or a notes entry that explains its absence.
C14_ExecutedHasSignatureOrNotes ==
    \A id \in DOMAIN targets :
        targets[id].status = "executed" =>
            \/ targets[id].execution_signature \notin {None, ""}
            \/ targets[id].notes # None

\* The daemon is about to evaluate a trailing stop that is in the table
EvaluatingTrailing ==
    /\ daemon.pc = "loop"
    /\ daemon.price > 0
    /\ daemon.batch[daemon.idx].target_type = "trailing_stop"
    /\ daemon.batch[daemon.idx].id \in DOMAIN targets

\* The row check_target receives: after update_trailing_peak and get_target
EvaluatedTrailing ==
    LET id == daemon.batch[daemon.idx].id
    IN  update_trailing_peak(targets, id, daemon.price)[id]

\* C15: when the daemon evaluates the condition of a trailing stop of the
\* table, the peak_value it evaluates is at least entry_price and at least
\* every price polled for the target so far; and the peak_value of a row never
\* decreases.
C15_PeakCoversObservedPrices ==
    /\ [](EvaluatingTrailing =>
            /\ EvaluatedTrailing.peak_value >= EvaluatedTrailing.entry_price
            /\ \A p \in observed[EvaluatedTrailing.id] :
                  EvaluatedTrailing.peak_value >= p)
    /\ [][\A id \in DOMAIN targets \cap DOMAIN targets' :
             targets'[id].peak_value >= targets[id].peak_value]_vars

\* A trailing stop evaluated on its second tick, below the peak it reached
C15_Witness ==
    /\ EvaluatingTrailing
    /\ observed[EvaluatedTrailing.id] = {2, 4}
    /\ daemon.price = 2
    /\ EvaluatedTrailing.peak_value = 4
    /\ EvaluatedTrailing.entry_price = 2

\* C16: a daemon tick fires a sell only for a target whose status is pending:
\* whenever the loop goes on to execute_target_sell, the row of the target is
\* in the table with status pending at that moment.
C16_SellsOnlyPendingTargets ==
    [][(daemon.pc = "loop" /\ daemon'.pc = "sell") =>
          /\ daemon.batch[daemon.idx].id \in DOMAIN targets
          /\ targets[daemon.batch[daemon.idx].id].status = "pending"]_vars

\* The step is an execute_target_sell that ended with an exception
SellRaisedStep ==
    /\ daemon.pc = "sell"
    /\ Len(sells') = Len(sells) + 1
    /\ sells'[Len(sells')].result.raised

\* C17: when processing one target of a tick raises, the loop goes on with the
\* next target of the batch (or ends the tick after the last one); and after an
\* exception has escaped a tick, run is at its sleep and the next tick can
\* begin.
C17_ExceptionsDoNotStopDaemon ==
    /\ [][SellRaisedStep =>
             IF daemon.idx < Len(daemon.batch)
             THEN /\ daemon'.pc = "loop"
                  /\ daemon'.idx = daemon.idx + 1
                  /\ daemon'.batch = daemon.batch
             ELSE daemon'.pc = "sleep"]_vars
    /\ [](daemon.cycle_errors > 0 =>
             /\ daemon.pc # "stopped"
             /\ (daemon.pc = "sleep" /\ daemon.cycle < MaxCycles) => ENABLED CycleStart)

\* A tick that runs after an exception escaped the one before: its first
\* target raised and its second target is being evaluated
C17_Witness ==
    /\ daemon.cycle_errors > 0
    /\ daemon.pc = "loop"
    /\ daemon.idx = 2
    /\ sells # <<>>
    /\ sells[Len(sells)].id = daemon.batch[1].id
    /\ sells[Len(sells)].result.raised


----------------------------------------------------------------------------
(* Claims about the wallet file (SpecWallet) *)

\* wallet.enc exists and the present machine key does not decrypt it
WalletUndecryptable ==
    /\ wallet_enc.exists
    /\ load_local_wallet(wallet_enc, machine_key) = NoWallet

\* C18: while wallet.enc exists and cannot be decrypted with the present
\* machine key, a get_or_create_wallet call does not write a new wallet in its
\* place: the step leaves wallet.enc as it is.
C18_UndecryptableWalletNotReplaced ==
    [][(WalletUndecryptable /\ wallet_op'.op = "get_or_create_wallet")
          => wallet_enc' = wallet_enc]_vars

\* The step writes wallet.enc over an existing wallet.enc
OverwritingSave == wallet_enc.exists /\ wallet_enc' # wallet_enc

\* C19: a save that overwrites wallet.enc has copied it to the backup named by
\* the present timestamp; a save whose copy fails leaves wallet.enc unchanged;
\* and every wallet that was overwritten is held by some backup unless
\* _cleanup_old_backups has deleted its backup.
C19_OverwrittenWalletRecoverable ==
    /\ [][OverwritingSave =>
             /\ wallet_clock \in DOMAIN backups'
             /\ backups'[wallet_clock] = wallet_enc]_vars
    /\ [][wallet_op'.outcome = "copy failed" => wallet_enc' = wallet_enc]_vars
    /\ [](\A v \in overwritten \ evicted :
             \E t \in DOMAIN backups : backups[t].value = v)

\* C20: wallet_backups never holds more than MAX_WALLET_BACKUPS backups, and
\* no sidecar without its backup; a save that backs up keeps the new backup,
\* deletes just the excess over MAX_WALLET_BACKUPS, every deleted backup is
\* older (by mtime) than every backup kept, and the sidecars of the deleted
\* backups are deleted with them.
C20_AtMostTenBackups ==
    /\ [](/\ Cardinality(DOMAIN backups) <= MAX_WALLET_BACKUPS
          /\ DOMAIN sidecars \subseteq DOMAIN backups)
    /\ [][OverwritingSave =>
             LET before  == DOMAIN backups \cup {wallet_clock}
                 deleted == before \ DOMAIN backups'
                 mtime(t) == IF t = wallet_clock THEN wallet_enc.mtime
                             ELSE backups[t].mtime
             IN  /\ DOMAIN backups' \subseteq before
                 /\ wallet_clock \in DOMAIN backups'
                 /\ Cardinality(DOMAIN backups')
                       = IF Cardinality(before) > MAX_WALLET_BACKUPS
                         THEN MAX_WALLET_BACKUPS ELSE Cardinality(before)
                 /\ \A t \in deleted : \A u \in DOMAIN backups' :
                       mtime(t) < mtime(u)
                 /\ \A t \in DOMAIN backups' \ {wallet_clock} :
                       backups'[t] = backups[t]
                 /\ DOMAIN sidecars' \cap deleted = {}]_vars

\* The eleventh backup has been written and the oldest one deleted
C20_Witness ==
    /\ wallet_op.outcome = "saved"
    /\ evicted # {}
    /\ Cardinality(DOMAIN backups) = MAX_WALLET_BACKUPS
    /\ Cardinality(DOMAIN sidecars) > 0


\* The step is a get_wallet_sync_status call
SyncStatusStep ==
    /\ wallet_op' # wallet_op
    /\ wallet_op'.op = "get_wallet_sync_status"

\* C21: when SOLANA_PRIVATE_KEY holds a valid key and wallet.enc decrypts to
\* another address, get_wallet_sync_status reports the environment wallet as
\* the active one (as get_wallet_address does), reports the mismatch, and the
\* call writes neither wallet.enc nor a backup nor a sidecar.
C21_EnvKeyWinsAndMismatchReported ==
    [][SyncStatusStep =>
          LET env    == wallet_op'.env
              local  == load_local_wallet(wallet_enc, machine_key)
              result == wallet_op'.result
          IN  (env.valid /\ local # NoWallet /\ local # env.address) =>
                  /\ result.active_source = "environment"
                  /\ result.active_address = env.address
                  /\ get_wallet_address(env, wallet_enc, machine_key) = env.address
                  /\ ~result.is_synced
                  /\ result.warning = "WALLET MISMATCH"
                  /\ UNCHANGED <<wallet_enc, backups, sidecars, wallet_writes>>]_vars

\* A status taken with a valid environment key while wallet.enc holds another
\* wallet that decrypts, and backups exist
C21_Witness ==
    /\ wallet_op.op = "get_wallet_sync_status"
    /\ wallet_op.env.valid
    /\ wallet_op.result.local_configured
    /\ wallet_op.result.local_address # wallet_op.env.address
    /\ ~wallet_op.result.is_synced
    /\ backups # <<>>


----------------------------------------------------------------------------
(* Claims about the strategies table (SpecStrategy) *)

\* C22 as stated: at any moment exactly one row of the strategies table has
\* is_active = 1.
C22_ExactlyOneActive == Cardinality(active_rows(strategies)) = 1

\* C22: at most one row of the strategies table has is_active = 1, and exactly
\* one once the table has a row (before the first set_strategy it is empty and
\* the active strategy is the default preset); a set_strategy that changes the
\* table leaves the saved strategy as the only active row, every row active
\* before it being demoted by the same commit.
C22_OneActiveOnceSet ==
    /\ [](/\ Cardinality(active_rows(strategies)) <= 1
          /\ strategies # <<>> => Cardinality(active_rows(strategies)) = 1
          /\ strategies = <<>> => strategy = STRATEGY_PRESETS[DEFAULT_STRATEGY])
    /\ [][strategies' # strategies =>
             /\ active_rows(strategies') = {strategy'.name}
             /\ \A n \in active_rows(strategies) \ {strategy'.name} :
                   strategies'[n].is_active = 0]_vars

\* A strategy was set after another: the table holds a demoted row next to
\* the active one
C22_Witness ==
    /\ Cardinality(active_rows(strategies)) = 1
    /\ \E n \in DOMAIN strategies : strategies[n].is_active = 0
    /\ strategy.name = "custom"

\* C23: the active strategy saved by set_strategy, whatever the preset and
\* the overrides, has auto_execute_under_usd <= max_trade_usd.
C23_AutoExecuteWithinMaxTrade ==
    \A n \in DOMAIN strategies :
        strategies[n].is_active = 1 =>
            /\ strategies[n].auto_execute_under_usd <= strategies[n].max_trade_usd
            /\ strategy = row_strategy(strategies[n])

\* An override of the auto threshold above the maximum was clamped on save
C23_Witness ==
    /\ strategy.name = "custom"
    /\ "custom" \in active_rows(strategies)
    /\ strategies["custom"].auto_execute_under_usd = strategies["custom"].max_trade_usd
    /\ strategies["custom"].max_trade_usd \in {5, 100}


----------------------------------------------------------------------------
(* Claims about check_policy called directly (SpecPolicy) *)

HasTag(tags, tag) == \E i \in DOMAIN tags : tags[i] = tag

\* The last direct call returned a result.
PolicyReturned == policy_call.called /\ ~policy_call.result.raised

RugcheckTags ==
    {"rugcheck_score", "mint_authority still active", "mint_authority disabled",
     "freeze_authority still active", "freeze_authority disabled",
     "rugcheck required for unknown token"}

HasRugcheckTag(tags) == \E tag \in RugcheckTags : HasTag(tags, tag)

\* C27: a check_policy call for a to_mint outside KNOWN_SAFE_MINTS without a
\* rugcheck result returns not allowed with "rugcheck required" among the
\* failed checks; a call for a to_mint inside KNOWN_SAFE_MINTS returns with no
\* rugcheck tag at all, whatever rugcheck result it was given, and is allowed
\* without one when no other gate fails.
C27_RugcheckRequiredUnlessKnownSafe ==
    policy_call.called =>
        LET r == policy_call.result
        IN  /\ (policy_call.to_mint \notin KNOWN_SAFE_MINTS /\ policy_call.rug = NoRugcheck)
                   => /\ ~r.raised
                      /\ ~r.allowed
                      /\ HasTag(r.checks_failed, "rugcheck required for unknown token")
            /\ policy_call.to_mint \in KNOWN_SAFE_MINTS
                   => /\ ~r.raised
                      /\ ~HasRugcheckTag(r.checks_passed)
                      /\ ~HasRugcheckTag(r.checks_failed)
                      /\ r.allowed <=> r.checks_failed = <<>>

\* An unknown to_mint without a rugcheck result, every other gate passing.
C27_Witness ==
    /\ policy_call.called
    /\ policy_call.to_mint \notin KNOWN_SAFE_MINTS
    /\ policy_call.rug = NoRugcheck
    /\ policy_call.result.checks_failed = <<"rugcheck required for unknown token">>

\* C28: a check_policy call for a to_mint outside KNOWN_SAFE_MINTS returns
\* allowed only if it was given a rug report with a score and that score is at
\* most MIN_RUGCHECK_SCORE.
C28_AllowedOnlyWithScoreWithinLimit ==
    (PolicyReturned /\ policy_call.to_mint \notin KNOWN_SAFE_MINTS /\ policy_call.result.allowed)
        => /\ policy_call.rug # NoRugcheck
           /\ policy_call.rug.score # NoScore
           /\ policy_call.rug.score <= policy_call.config.MIN_RUGCHECK_SCORE


C29_WitnessAllowed ==
    /\ PolicyReturned
    /\ policy_call.to_mint \in policy_call.config.DENY_MINTS \cap policy_call.config.ALLOW_MINTS
    /\ ~policy_call.result.allowed

AllowTags ==
    {"from_mint not in ALLOW_MINTS", "from_mint in ALLOW_MINTS",
     "to_mint not in ALLOW_MINTS", "to_mint in ALLOW_MINTS"}

\* What the allow list refuses: a mint in neither ALLOW_MINTS nor KNOWN_SAFE_MINTS
OutsideAllowList(mint, config) ==
    mint \notin config.ALLOW_MINTS /\ mint \notin KNOWN_SAFE_MINTS

----------------------------------------------------------------------------
(* Claims about the user config (SpecConfig) *)

\* The (provider, value) pairs of the model that pass their provider's
\* validation: an alphanumeric key for helius and alchemy, an https
\* quiknode.pro URL for quicknode, an http(s) URL for custom.
ValidatedRpcPairs ==
    ({"helius", "alchemy"} \X {"abc-123_DEF", "key2-XYZ"})
    \cup {<<"quicknode", "https://ep.solana-mainnet.quiknode.pro/t">>}
    \cup ({"custom"} \X {"https://ep.solana-mainnet.quiknode.pro/t",
                         "https://rpc.example.com", "http://localhost:8899"})

\* The call that just returned was set_rpc_config with a pair that is not valid.
RejectedRpcStep ==
    /\ config_op'.op = "set_rpc_config"
    /\ <<config_op'.provider, config_op'.value>> \notin ValidatedRpcPairs

\* C31: a set_rpc_config call with an unknown provider or a value failing the
\* provider's validation returns an error and leaves the user config as it
\* was; the stored config never holds an rpc pair that is not a validated one.
C31_OnlyValidatedRpcConfigPersisted ==
    /\ [][RejectedRpcStep => /\ ~config_op'.success
                             /\ config_op'.error # None
                             /\ user_config' = user_config]_vars
    /\ [](user_config.exists /\ user_config.rpc_provider # None
             => <<user_config.rpc_provider, user_config.rpc_value>> \in ValidatedRpcPairs)

\* A quicknode call with a URL that is no quiknode.pro URL was refused while
\* a validated helius pair was stored, and that pair is still there.
C31_Witness ==
    /\ config_op.op = "set_rpc_config"
    /\ config_op.provider = "quicknode"
    /\ config_op.value = "https://rpc.example.com"
    /\ ~config_op.success
    /\ user_config.exists
    /\ user_config.rpc_provider = "helius"


----------------------------------------------------------------------------
(* Claims about the PnL baseline (SpecBaseline) *)

\* The step is a pnl_reset call.
PnlResetStep == pnl_op'.call # pnl_op.call /\ pnl_op'.op = "pnl_reset"

\* C32: once an init snapshot exists, no step other than pnl_reset (a later
\* pnl_init, a recorded trade, a pnl_with_baseline read, the clock) changes
\* what get_pnl_baseline returns, and that is always the init snapshot
\* inserted first.
C32_BaselineKeptUntilReset ==
    /\ [][(get_pnl_baseline(pnl_snapshots) # NoBaseline /\ ~PnlResetStep)
              => get_pnl_baseline(pnl_snapshots') = get_pnl_baseline(pnl_snapshots)]_vars
    /\ [](pnl_snapshots # <<>>
             => /\ get_pnl_baseline(pnl_snapshots).timestamp = pnl_snapshots[1].timestamp
                /\ get_pnl_baseline(pnl_snapshots).total_value_usd
                       = pnl_snapshots[1].total_value_usd)

\* pnl_init(100), later a second pnl_init with another value and a recorded
\* trade; pnl_with_baseline at a portfolio value of 80 reports the first
\* snapshot and -20.
C32_Witness ==
    /\ Len(pnl_snapshots) = 2
    /\ pnl_snapshots[1].total_value_usd = 100
    /\ pnl_snapshots[2].total_value_usd # 100
    /\ pnl_snapshots[2].timestamp > pnl_snapshots[1].timestamp
    /\ trade_history # <<>>
    /\ pnl_op.op = "pnl_with_baseline"
    /\ "baseline" \in DOMAIN pnl_op.result
    /\ pnl_op.result.baseline.total_value_usd = 100
    /\ pnl_op.result.pnl_vs_baseline = -20


----------------------------------------------------------------------------
(* Claims about quick_trade called by the user (SpecQuickTrade) *)

\* The step is a quick_trade call.
QuickTradeStep == quick_op'.call # quick_op.call

\* The results of a quick_trade call that went on to solana_swap_confirm
ExecutedInCallKinds == {"swap_success", "swap_failed", "execute_swap"}

C33_WitnessAuto ==
    /\ quick_op.call > 0
    /\ quick_op.action = "buy"
    /\ quick_op.amount_usd <= quick_op.auto_execute_under_usd
    /\ quick_op.result.kind = "swap_success"
    /\ intents[quick_op.intent_id].executed
    /\ Len(trade_history) = 1


----------------------------------------------------------------------------
(* Claims about the trade recording of solana_swap_confirm (SpecConfirm) *)

\* Call c leaves its recording block without a row having been inserted.
RecordingFailedStep(c) ==
    /\ confirm[c].pc = "record"
    /\ confirm'[c].pc # "record"
    /\ trade_history' = trade_history

\* C34: when the recording of the trade fails after an execution that
\* reported Success, the solana_swap_confirm call still returns success for
\* that execution, and the intent, if its row is still stored, stays marked
\* executed.
C34_RecordingFailureKeepsSuccess ==
    [][\A c \in Calls : RecordingFailedStep(c) =>
          /\ confirm'[c].pc = "done"
          /\ confirm'[c].result = "success"
          /\ confirm'[c].status = "Success"
          /\ confirm'[c].intent_id \in DOMAIN intents'
                => intents'[confirm'[c].intent_id].executed]_vars

\* A call returned success with its intent marked executed and no trade
\* row recorded.
C34_Witness ==
    \E c \in Calls :
        /\ confirm[c].pc = "done"
        /\ confirm[c].result = "success"
        /\ trade_history = <<>>
        /\ confirm[c].intent_id \in DOMAIN intents
        /\ intents[confirm[c].intent_id].executed


----------------------------------------------------------------------------
(* Claims about the transaction an intent binds (SpecBinding) *)

\* The quote that created intent i
QuoteOfIntent(q, i) == quotes[q].pc = "done" /\ quotes[q].result = "quoted" /\ quotes[q].intent_id = i

\* An order with no errorCode and a non-empty transaction
UsableOrder(order) ==
    /\ ~order.raised
    /\ order.errorCode = None
    /\ order.transaction \notin {None, ""}

\* C35: every stored intent was created by a quote whose order had no
\* errorCode and a non-empty transaction, and holds that order's transaction
\* and request id; every solana_swap_confirm call that got as far as signing
\* signed the unsigned_tx of the intent it was called with, as that intent's
\* quote stored it, and submits it with that intent's request_id.
C35_ConfirmSubmitsTheQuotedTransaction ==
    /\ \A i \in DOMAIN intents : \E q \in QuoteIds :
          /\ QuoteOfIntent(q, i)
          /\ UsableOrder(quotes[q].order)
          /\ intents[i].unsigned_tx = quotes[q].order.transaction
          /\ intents[i].request_id = quotes[q].order.requestId
    /\ \A c \in Calls : confirm[c].signed_tx # NotSigned =>
          \E q \in QuoteIds :
             /\ QuoteOfIntent(q, confirm[c].intent_id)
             /\ UsableOrder(quotes[q].order)
             /\ confirm[c].signed_tx = <<"signed", quotes[q].order.transaction>>
             /\ confirm[c].request_id = quotes[q].order.requestId

\* A call executed the intent of a quote whose order carried the second
\* transaction.
C35_Witness ==
    \E c \in Calls, q \in QuoteIds :
        /\ QuoteOfIntent(q, confirm[c].intent_id)
        /\ quotes[q].order.transaction = "txB"
        /\ confirm[c].signed_tx = <<"signed", "txB">>
        /\ confirm[c].request_id = "reqB"
        /\ confirm[c].result = "success"

----------------------------------------------------------------------------
(* Claims about _make_request of the two Jupiter clients (SpecHttp) *)

\* C36: an HTTP 400 answer is not retried: once an attempt of either client
\* was answered with a 400, that attempt is the last one of the request and
\* the request has failed with the response body.
C36_BadRequestNotRetried ==
    \A k \in 1..Len(http.responses) :
        http.responses[k] = "http400" =>
            /\ Len(http.responses) = k
            /\ http.pc = "raised"
            /\ http.error = "ValueError: Bad request (400): body"

\* all answers so far are 5xx statuses or timeouts
OnlyServerErrors ==
    \A k \in 1..Len(http.responses) : http.responses[k] \in {"http500", "timeout"}

RequestEnded == http.pc \in {"returned", "raised"}

\* C37: _make_request sends at most max_retries requests; the k-th sleep,
\* between the k-th and the next request, lasts 2^(k-1) seconds (attempt
\* counts from 0) and there is none after the last request; answered by
\* 5xx statuses and timeouts only, it raises once max_retries requests
\* were sent; it returns exactly when a request is answered with a 200, which
\* is then the last request; and every call ends, whatever the answers.
C37_BoundedRetriesWithBackoff ==
    /\ [](/\ Len(http.responses) <= client_max_retries(http.client)
          /\ \A k \in 1..Len(http.delays) : http.delays[k] = 2 ^ (k - 1)
          /\ http.pc = "backoff" => Len(http.delays) = Len(http.responses)
          /\ http.pc = "request" => Len(http.delays) = Len(http.responses)
          /\ RequestEnded => Len(http.delays) = Len(http.responses) - 1
          /\ (OnlyServerErrors /\ Len(http.responses) = client_max_retries(http.client))
                => /\ http.pc = "raised"
                   /\ http.error = "RuntimeError: Failed after attempts"
          /\ (OnlyServerErrors /\ http.pc = "raised")
                => Len(http.responses) = client_max_retries(http.client)
          /\ \A k \in 1..Len(http.responses) :
                http.responses[k] = "http200"
                    <=> (k = Len(http.responses) /\ http.pc = "returned"))
    /\ (http.pc = "request" ~> RequestEnded)

C37_Witness ==
    /\ http.pc = "raised"
    /\ http.client = "ultra"
    /\ http.responses = <<"http500", "timeout", "http500", "http500", "timeout">>
    /\ http.delays = <<1, 2, 4, 8>>

----------------------------------------------------------------------------
(* Claims about the PnL of one token (SpecTokenPnl) *)

\* all rows of the mint in trade_history, in insertion order
RowsOfMint(mint) == SelectSeq(trade_history, LAMBDA row : row.mint = mint)

\* C38: calculate_pnl_for_token(mint, price) returns as bought_tokens,
\* bought_usd, sold_tokens and sold_usd the sums over every trade_history
\* row of that mint, however many rows the mint has.
C38_TokenPnlSumsEveryRow ==
    [][(pnl_op'.op = "calculate_pnl_for_token" /\ pnl_op'.call # pnl_op.call
        /\ "mint" \in DOMAIN pnl_op'.result)
          => LET all == RowsOfMint(pnl_op'.result.mint)
                 result == pnl_op'.result
             IN  /\ result.total_bought_tokens = total_of(all, "buy", "amount_tokens")
                 /\ result.total_bought_usd = total_of(all, "buy", "amount_usd")
                 /\ result.total_sold_tokens = total_of(all, "sell", "amount_tokens")
                 /\ result.total_sold_usd = total_of(all, "sell", "amount_usd")]_<<pnl_op.call>>

----------------------------------------------------------------------------
(* Claims about the daemon process and its PID file (SpecDaemon) *)

\* the processes that are inside the loop of SlopeSniperDaemon.run
InRunLoop == {p \in DaemonPids : procs[p].pc \in {"loop", "cycle", "sleep"}}

\* C39: once stop() was called on a daemon, by the signal handler, that
\* daemon begins no further check cycle, and a daemon that left its loop
\* and exited has not left its PID in the PID file.
C39_NoCycleAfterStop ==
    \A p \in DaemonPids :
        /\ ~procs[p].late_cycle
        /\ procs[p].pc = "exited" => pid_file # p

\* C40: at most one daemon process is inside the run loop at any time, and
\* a start_daemon call that found a live daemon's PID recorded has returned
\* "Daemon already running" with that PID.
C40_AtMostOneDaemon ==
    /\ Cardinality(InRunLoop) <= 1
    /\ \A c \in CliCalls :
          cli[c].result = "Daemon already running" => cli[c].pid \in DaemonPids

====
